---------------------------- MODULE Spec2Model ----------------------------
(***************************************************************************)
(* pingtower-flow: the flow store (src/src/state/store.ts), the entity     *)
(* cache with debounced persistence of website nodes, and the dashboard    *)
(* page (src/src/pages/DashboardPage.tsx), the two polling views with      *)
(* request cancellation.                                                   *)
(*                                                                         *)
(* Four state machines share this module: StoreSpec (the store, the        *)
(* backend's /sites endpoints and the debounce timers), DashSpec (the      *)
(* overview and site views of the dashboard), StatsSpec (the statistics    *)
(* of src/src/utils/stats.ts) and FilterSpec (the filters of the           *)
(* dashboard's log table).  Each leaves the others' variables untouched.   *)
(*                                                                         *)
(* Variables marked "history" are not state of the program: they record    *)
(* what happened so that properties over a run can be stated on a state.   *)
(***************************************************************************)
EXTENDS Integers, Sequences, FiniteSets, TLC

(***************************************************************************)
(* Bounds of the model                                                     *)
(***************************************************************************)
MaxOps == 4           \* user operations (add, edit, remove, delete, load) in a run
MaxTemp == 1          \* temporary ids ever generated by the client
MaxSiteId == 3        \* site ids the backend can assign
MaxNodes == 2         \* nodes in the local list
MaxInFlight == 2      \* site writes (POST/PUT) in flight at once
MaxDeletes == 1       \* DELETE requests in flight at once
MaxLoads == 1         \* GET /sites requests in flight at once
MaxBurst == 3         \* edits counted in one burst (history only)
MaxCreates == 1       \* createWebsiteNode calls in flight at once

(***************************************************************************)
(* Program constants                                                       *)
(***************************************************************************)
DEBOUNCE_MS == 500            \* store.ts:276, setTimeout(..., 500)
DEFAULT_PING_INTERVAL == 30   \* types.ts (part_004:16)
MIN_PING_INTERVAL == 1        \* types.ts (part_004:17)
MAX_PING_INTERVAL == 3600     \* types.ts (part_004:18)
NoInterval == 0               \* ping_interval?: number left undefined
DEFAULT_NAME == "Bez imeni"   \* store.ts:180 (the literal, transliterated)
Absent == "<absent>"          \* a key that a Partial<BaseNodeData> does not hold
NoSelection == "<undefined>"  \* selectedNodeId: undefined (store.ts:73)
NoSync == [url |-> Absent, name |-> Absent, ping_interval |-> 0]

\* Time advances in steps of half a debounce window.
HalfWindow == DEBOUNCE_MS \div 2

(***************************************************************************)
(* Value domains                                                           *)
(***************************************************************************)
Urls == {"u1", "u2"}
Names == {"", "n1"}

DecimalStr == <<"1", "2", "3", "4", "5", "6", "7", "8", "9">>
TempStr == <<"temp-1", "temp-2", "temp-3", "temp-4">>

\* String(site.id)
String(n) == DecimalStr[n]
\* Number(node.id): NaN (modelled as 0, never a site id) when not a numeral
Number(s) ==
    IF \E n \in 1..Len(DecimalStr) : DecimalStr[n] = s
    THEN CHOOSE n \in 1..Len(DecimalStr) : DecimalStr[n] = s
    ELSE 0
\* node.id.startsWith("temp-")
StartsWithTemp(s) == \E k \in 1..Len(TempStr) : TempStr[k] = s

RemoveAt(s, i) == SubSeq(s, 1, i - 1) \o SubSeq(s, i + 1, Len(s))
Range(s) == {s[i] : i \in 1..Len(s)}
Min(a, b) == IF a < b THEN a ELSE b

(***************************************************************************)
(* Store state                                                             *)
(***************************************************************************)
VARIABLES
    nodes,        \* FlowStore.nodes: sequence of nodes
    isDirty,      \* FlowStore.isDirty
    selectedNodeId, \* FlowStore.selectedNodeId (NoSelection: undefined)
    timers,       \* websiteSyncTimers: node id -> pending timer with its closure
    writes,       \* createSite/updateSite calls of saveSite awaiting their result
    deletes,      \* deleteSite calls of deleteSiteNode awaiting their result
    loads,        \* fetchSites calls of initFromDb awaiting their result
    creates,      \* createSite calls of createWebsiteNode awaiting their result
    server,       \* the backend's sites: site id -> [url, name, ping_interval]
    nextSiteId,   \* the id the backend assigns next
    nextTemp,     \* the next temporary id the client generates
    ops,          \* history: user operations so far (bounds the run)
    lastOp,       \* history: the store transition that led to this state
    burst,        \* history: per entity, the current run of debounced edits
    removed,      \* history: entities removeNode or deleteSiteNode was called for
    failed,       \* history: entities whose last write failed, not edited since
    issuedCreates, \* history: per entity, the POST /sites requests saveSite issued
    interfered,   \* history: entities that had a write fail, or were removed,
                  \* or were loaded again after an edit
    synced        \* history: per entity, the fields last successfully persisted
                  \* or loaded (NoSync: none yet)

storeVars == <<nodes, isDirty, selectedNodeId, timers, writes, deletes, loads,
               creates, server, nextSiteId, nextTemp, ops, lastOp, burst, removed,
               failed, issuedCreates, interfered, synced>>

\* History: an entity keeps its uid when saveSite replaces its id.
UIDs == Range(DecimalStr) \cup Range(TempStr)

FieldsOf(n) == [url |-> n.description, name |-> n.title,
                ping_interval |-> n.ping_interval]

IdleBurst == [n |-> 0, acc |-> [url |-> "", name |-> "", ping_interval |-> NoInterval],
              since |-> 0, clean |-> FALSE, writes |-> 0,
              sent |-> [url |-> "", name |-> "", ping_interval |-> NoInterval],
              sentAt |-> 0,
              last |-> [title |-> Absent, description |-> Absent,
                        ping_interval |-> NoInterval, other |-> FALSE]]

\* `${interval}`: the decimal numeral of a positive integer, digit by digit
RECURSIVE DecimalDigits(_)
DecimalDigits(n) ==
    IF n < 10 THEN <<n>> ELSE Append(DecimalDigits(n \div 10), n % 10)

\* buildWebsiteMetadata(data): the three label/value entries shown on a node
buildWebsiteMetadata(data) ==
    LET interval == IF data.ping_interval = NoInterval
                    THEN DEFAULT_PING_INTERVAL ELSE data.ping_interval
    IN  <<[label |-> "URL",
           value |-> IF data.description = Absent THEN "-" ELSE data.description],
          [label |-> "Nazvanie",
           value |-> IF data.title = Absent THEN DEFAULT_NAME ELSE data.title],
          [label |-> "Interval",
           value |-> [number |-> DecimalDigits(interval), unit |-> " sek"]]>>

HasNode(ns, id) == \E i \in 1..Len(ns) : ns[i].id = id
NodeIdx(ns, id) == CHOOSE i \in 1..Len(ns) : ns[i].id = id
HasUid(ns, u) == \E i \in 1..Len(ns) : ns[i].uid = u
UidIdx(ns, u) == CHOOSE i \in 1..Len(ns) : ns[i].uid = u

\* nodes.filter((n) => n.id !== nodeId)
FilterOut(ns, id) == SelectSeq(ns, LAMBDA n : n.id # id)

\* cancelWebsiteSyncTimer(nodeId)
cancelWebsiteSyncTimer(tm, nodeId) ==
    [k \in DOMAIN tm \ {nodeId} |-> tm[k]]

StoreInit ==
    /\ nodes = <<>>
    /\ isDirty = FALSE
    /\ timers = [k \in {} |-> 0]
    /\ writes = <<>>
    /\ deletes = <<>>
    /\ loads = <<>>
    /\ creates = <<>>
    /\ server = [i \in {1} |-> [url |-> "u1", name |-> "n1", ping_interval |-> 30]]
    /\ nextSiteId = 2
    /\ nextTemp = 1
    /\ ops = 0
    /\ lastOp = [op |-> "init", id |-> ""]
    /\ burst = [u \in UIDs |-> IdleBurst]
    /\ removed = {}
    /\ failed = {}
    /\ selectedNodeId = NoSelection
    /\ issuedCreates = [u \in UIDs |-> 0]
    /\ interfered = {}
    /\ synced = [u \in UIDs |-> NoSync]

(***************************************************************************)
(* Inputs of updateNodeData: a Partial<BaseNodeData>.  A key the partial    *)
(* does not hold is Absent (NoInterval for ping_interval); "other" stands   *)
(* for a key that is not synchronised (status, emoji).                      *)
(***************************************************************************)
HasTitle(data) == data.title # Absent
HasDescription(data) == data.description # Absent
HasInterval(data) == data.ping_interval # NoInterval

\* What the Inspector passes for node n: handleChange sends one of title and
\* description (any text, also empty) when it differs from the node's,
\* handleStatusChange a status alone.
EditInputs(n) ==
    {d \in [title : Names \cup {Absent}, description : Urls \cup {Absent},
            ping_interval : {NoInterval}, other : BOOLEAN] :
        /\ Cardinality({k \in {"title", "description", "other"} :
                           \/ k = "title" /\ HasTitle(d)
                           \/ k = "description" /\ HasDescription(d)
                           \/ k = "other" /\ d.other}) = 1
        /\ HasTitle(d) => d.title # n.title
        /\ HasDescription(d) => d.description # n.description}

\* { ...node.data, ...data }
SpreadData(n, data) ==
    [n EXCEPT !.title = IF HasTitle(data) THEN data.title ELSE @,
              !.description = IF HasDescription(data) THEN data.description ELSE @,
              !.ping_interval = IF HasInterval(data) THEN data.ping_interval ELSE @]

\* (mutant) the metadata of the node is left as it was
MergeData_StaleMetadata(n, data) == SpreadData(n, data)

\* nextData of updateNodeData: the spread, and for a website node the metadata
\* built from it
MergeData(n, data) ==
    IF n.type = "website"
    THEN [SpreadData(n, data) EXCEPT !.metadata = buildWebsiteMetadata(SpreadData(n, data))]
    ELSE SpreadData(n, data)

\* state.nodes.map(...) of updateNodeData
UpdatedNodes(ns, id, data) ==
    [i \in 1..Len(ns) |-> IF ns[i].id # id THEN ns[i] ELSE MergeData(ns[i], data)]

shouldSyncWebsite(n, data) ==
    /\ n.type = "website"
    /\ HasTitle(data) \/ HasDescription(data) \/ HasInterval(data)

\* (mutant) an existing timer is left running instead of being restarted
ScheduledTimers_NoRestart(tm, updatedNode) ==
    IF updatedNode.id \in DOMAIN tm THEN tm
    ELSE [k \in DOMAIN tm \cup {updatedNode.id} |->
            IF k = updatedNode.id
            THEN [node |-> updatedNode, remaining |-> DEBOUNCE_MS]
            ELSE tm[k]]

\* (mutant) scheduling a timer restarts every pending timer
ScheduledTimers_RestartAll(tm, updatedNode) ==
    [k \in DOMAIN tm \cup {updatedNode.id} |->
        IF k = updatedNode.id
        THEN [node |-> updatedNode, remaining |-> DEBOUNCE_MS]
        ELSE [tm[k] EXCEPT !.remaining = DEBOUNCE_MS]]

\* The timer updateNodeData leaves for the node: an existing one is cleared
\* and a new one, closing over the updated node, is set for 500 ms.
ScheduledTimers(tm, updatedNode) ==
    [k \in DOMAIN tm \cup {updatedNode.id} |->
        IF k = updatedNode.id
        THEN [node |-> updatedNode, remaining |-> DEBOUNCE_MS]
        ELSE tm[k]]

\* History: the fields a run of edits has accumulated.
Accumulate(acc, data) ==
    [url |-> IF HasDescription(data) THEN data.description ELSE acc.url,
     name |-> IF HasTitle(data) THEN data.title ELSE acc.name,
     ping_interval |-> IF HasInterval(data) THEN data.ping_interval
                       ELSE acc.ping_interval]

TimerPendingFor(tm, u) == \E k \in DOMAIN tm : tm[k].node.uid = u

\* History: an edit of entity u continues the run while a timer of an earlier
\* edit of u is still pending, and starts a new run otherwise.
BurstAfterEdit(b, tm, before, data) ==
    IF TimerPendingFor(tm, before.uid) /\ b.n >= 1
    THEN [b EXCEPT !.n = Min(@ + 1, MaxBurst),
                   !.acc = Accumulate(@, data), !.since = 0, !.last = data]
    ELSE [IdleBurst EXCEPT !.n = 1, !.acc = Accumulate(FieldsOf(before), data),
                           !.clean = ~TimerPendingFor(tm, before.uid),
                           !.last = data]

\* History: another transition acted on entity u before its run was written.
Disturb(bs, us) ==
    [u \in UIDs |-> IF u \in us /\ bs[u].n >= 1 /\ bs[u].writes = 0
                    THEN [bs[u] EXCEPT !.clean = FALSE] ELSE bs[u]]

(***************************************************************************)
(* setNodes, as the canvas uses it to drop a new node: an optimistic local  *)
(* record with a temporary id.                                              *)
(***************************************************************************)
AddNode(type) ==
    /\ ops < MaxOps
    /\ nextTemp <= MaxTemp
    /\ Len(nodes) < MaxNodes
    /\ ops' = ops + 1
    /\ nodes' = Append(nodes, [id |-> TempStr[nextTemp], type |-> type,
                               title |-> "n1", description |-> "u1",
                               ping_interval |-> NoInterval,
                               metadata |->
                                  IF type = "website"
                                  THEN buildWebsiteMetadata(
                                          [title |-> "n1", description |-> "u1",
                                           ping_interval |-> NoInterval])
                                  ELSE <<>>,
                               uid |-> TempStr[nextTemp]])
    /\ isDirty' = TRUE
    /\ nextTemp' = nextTemp + 1
    /\ lastOp' = [op |-> "addNode", id |-> TempStr[nextTemp]]
    /\ UNCHANGED <<timers, writes, deletes, loads, server, nextSiteId, burst,
                   removed, failed, creates,
                   selectedNodeId, issuedCreates, interfered, synced>>

(***************************************************************************)
(* createWebsiteNode(position, template): the prompts, the call of          *)
(* createSite, and the commit of its answer (or the catch).                 *)
(***************************************************************************)
Max(a, b) == IF a > b THEN a ELSE b

\* The text typed into an interval prompt, by the number Number(value.trim())
\* reads from it: a decimal numeral, kept in tenths, or no number at all (NaN).
NotNumeric == [finite |-> FALSE, tenths |-> 0]
Numeral(t) == [finite |-> TRUE, tenths |-> t]

\* Math.round of a number given in tenths: the nearest integer, halves upwards
MathRound(tenths) == (tenths + 5) \div 10

\* normalizePingInterval(value); NoInterval stands for undefined
normalizePingInterval(value) ==
    IF ~value.finite THEN NoInterval
    ELSE IF value.tenths <= 0 THEN NoInterval
    ELSE Min(MAX_PING_INTERVAL, Max(MIN_PING_INTERVAL, MathRound(value.tenths)))

\* What the user types into the three prompts (trimmed): for the interval
\* "abc", "0" and "0.4".
PromptUrls == {"", "u2"}
PromptNames == {"n1"}
PromptIntervals == {NotNumeric, Numeral(0), Numeral(4)}

createWebsiteNode(urlInput, nameInput, intervalInput) ==
    LET normalizedInterval == normalizePingInterval(intervalInput)
        valid == urlInput # "" /\ nameInput # "" /\ normalizedInterval # NoInterval
    IN  /\ ops < MaxOps
        /\ ops' = ops + 1
        /\ Len(creates) < MaxCreates
        /\ creates' = IF valid
                       THEN Append(creates,
                                   [url |-> urlInput, name |-> nameInput,
                                    ping_interval |-> normalizedInterval,
                                    phase |-> "sent",
                                    saved |-> [id |-> 0, url |-> "", name |-> "",
                                               ping_interval |-> NoInterval]])
                       ELSE creates
        /\ lastOp' = [op |-> IF valid THEN "createCall" ELSE "createRejected", id |-> ""]
        /\ UNCHANGED <<nodes, isDirty, timers, writes, deletes, loads, server,
                       nextSiteId, nextTemp, burst, removed, failed,
                   selectedNodeId, issuedCreates, interfered, synced>>

\* POST /sites for createWebsiteNode
ServerCreate(i, ok) ==
    LET c == creates[i]
    IN  /\ c.phase = "sent"
        /\ ok => nextSiteId <= MaxSiteId
        /\ creates' = [creates EXCEPT ![i] =
                          IF ok
                          THEN [c EXCEPT !.phase = "ok",
                                         !.saved = [id |-> nextSiteId, url |-> c.url,
                                                    name |-> c.name,
                                                    ping_interval |-> c.ping_interval]]
                          ELSE [c EXCEPT !.phase = "err"]]
        /\ server' = IF ok
                      THEN [k \in DOMAIN server \cup {nextSiteId} |->
                              IF k = nextSiteId
                              THEN [url |-> c.url, name |-> c.name,
                                    ping_interval |-> c.ping_interval]
                              ELSE server[k]]
                      ELSE server
        /\ nextSiteId' = IF ok THEN nextSiteId + 1 ELSE nextSiteId
        /\ lastOp' = [op |-> "serverCreate", id |-> ""]
        /\ UNCHANGED <<nodes, isDirty, timers, writes, deletes, loads, nextTemp, ops,
                       burst, removed, failed,
                   selectedNodeId, issuedCreates, interfered, synced>>

\* The node createWebsiteNode builds from the answer
CreatedNode(c) ==
    LET interval == IF c.saved.ping_interval = NoInterval
                    THEN c.ping_interval ELSE c.saved.ping_interval
    IN  [id |-> String(c.saved.id), type |-> "website", title |-> c.saved.name,
         description |-> c.saved.url, ping_interval |-> interval,
         metadata |-> buildWebsiteMetadata(
                         [title |-> c.saved.name, description |-> c.saved.url,
                          ping_interval |-> interval]),
         uid |-> String(c.saved.id)]

createWebsiteNodeSettle(i) ==
    LET c == creates[i]
    IN  /\ c.phase \in {"ok", "err"}
        /\ c.phase = "ok" => Len(nodes) < MaxNodes
        /\ creates' = RemoveAt(creates, i)
        /\ IF c.phase = "ok"
           THEN /\ nodes' = nodes \o <<CreatedNode(c)>>
                /\ selectedNodeId' = CreatedNode(c).id
                /\ isDirty' = FALSE
                /\ synced' = [synced EXCEPT ![CreatedNode(c).uid] =
                                  FieldsOf(CreatedNode(c))]
           ELSE UNCHANGED <<nodes, selectedNodeId, isDirty, synced>>
        /\ interfered' = IF c.phase = "ok" /\ HasUid(nodes, CreatedNode(c).uid)
                         THEN interfered \cup {CreatedNode(c).uid} ELSE interfered
        /\ lastOp' = [op |-> IF c.phase = "ok" THEN "createOk" ELSE "createErr",
                      id |-> IF c.phase = "ok" THEN String(c.saved.id) ELSE ""]
        /\ UNCHANGED <<timers, writes, deletes, loads, server, nextSiteId, nextTemp,
                       ops, burst, removed, failed, issuedCreates>>

(***************************************************************************)
(* updateNodeData(id, data)                                                 *)
(***************************************************************************)
updateNodeData(id, data) ==
    LET hit == HasNode(nodes, id)
        before == nodes[NodeIdx(nodes, id)]
        updatedNode == MergeData(before, data)
        sync == hit /\ shouldSyncWebsite(updatedNode, data)
    IN  /\ ops < MaxOps
        /\ ops' = ops + 1
        /\ nodes' = UpdatedNodes(nodes, id, data)
        /\ isDirty' = TRUE
        /\ timers' = IF sync THEN ScheduledTimers(timers, updatedNode) ELSE timers
        /\ burst' = IF sync
                    THEN [burst EXCEPT ![before.uid] =
                              BurstAfterEdit(@, timers, before, data)]
                    ELSE burst
        /\ writes' = [i \in 1..Len(writes) |->
                        IF sync /\ writes[i].uid = before.uid
                        THEN [writes[i] EXCEPT !.preEdit = TRUE] ELSE writes[i]]
        /\ failed' = IF sync THEN failed \ {before.uid} ELSE failed
        /\ lastOp' = [op |-> IF sync THEN "edit" ELSE "editOther", id |-> id]
        /\ UNCHANGED <<deletes, loads, server, nextSiteId, nextTemp, removed,
                       creates, issuedCreates, interfered, synced>>

Edit ==
    \E i \in 1..Len(nodes) : \E data \in EditInputs(nodes[i]) :
        updateNodeData(nodes[i].id, data) /\ UNCHANGED selectedNodeId

(***************************************************************************)
(* WebsiteNode.handleEditClick: the three prompts of the node's toolbar     *)
(* button, and the call of updateNodeData with what has changed.            *)
(***************************************************************************)
\* (mutant) the upper clamp is missing
normalizeInterval_NoUpperClamp(value) ==
    IF ~value.finite THEN NoInterval
    ELSE IF value.tenths <= 0 THEN NoInterval
    ELSE Max(1, MathRound(value.tenths))

\* normalizeInterval(value) of WebsiteNode.tsx; NoInterval stands for undefined
normalizeInterval(value) ==
    IF ~value.finite THEN NoInterval
    ELSE IF value.tenths <= 0 THEN NoInterval
    ELSE Min(3600, Max(1, MathRound(value.tenths)))

\* data.ping_interval ?? DEFAULT_PING_INTERVAL
PollInterval(data) ==
    IF data.ping_interval = NoInterval THEN DEFAULT_PING_INTERVAL
    ELSE data.ping_interval

\* What the user types into the prompts of the button (trimmed): a url, a
\* name, and for the interval "abc", "30" and "5000".  An empty url or name
\* changes nothing, as typing the current one does.
EditUrls == {"u2"}
EditNames == {"n1"}
EditIntervals == {NotNumeric, Numeral(300), Numeral(50000)}

\* The updates handleEditClick collects from the trimmed inputs
EditUpdates(current, trimmedUrl, trimmedName, normalizedInterval) ==
    [title |-> IF trimmedName # current.title /\ trimmedName # ""
               THEN trimmedName ELSE Absent,
     description |-> IF trimmedUrl # current.description /\ trimmedUrl # ""
                     THEN trimmedUrl ELSE Absent,
     ping_interval |-> IF normalizedInterval # PollInterval(current)
                       THEN normalizedInterval ELSE NoInterval,
     other |-> FALSE]

handleEditClick(id, nextUrl, nextName, nextIntervalRaw) ==
    LET current == nodes[NodeIdx(nodes, id)]
        normalizedInterval == normalizeInterval(nextIntervalRaw)
        updates == EditUpdates(current, nextUrl, nextName, normalizedInterval)
        \* nothing but the selection changes (lastOp is history: it records
        \* the click when the click changed the selection)
        unchanged ==
            /\ lastOp' = IF id = selectedNodeId THEN lastOp
                         ELSE [op |-> "select", id |-> id]
            /\ UNCHANGED <<nodes, isDirty, timers, writes, deletes, loads,
                           creates, server, nextSiteId, nextTemp, ops, burst,
                           removed, failed, issuedCreates, interfered, synced>>
    IN  /\ HasNode(nodes, id)
        /\ current.type = "website"
        /\ selectedNodeId' = id
        /\ IF normalizedInterval = NoInterval
           THEN unchanged
           ELSE IF HasTitle(updates) \/ HasDescription(updates) \/ HasInterval(updates)
                THEN updateNodeData(id, updates)
                ELSE unchanged

EditClick ==
    \E i \in 1..Len(nodes) : \E nextUrl \in EditUrls : \E nextName \in EditNames :
        \E nextIntervalRaw \in EditIntervals :
            handleEditClick(nodes[i].id, nextUrl, nextName, nextIntervalRaw)

(***************************************************************************)
(* The timer callback: syncWebsiteNode(updatedNode) -> saveSite(node) up to *)
(* its await, then websiteSyncTimers.delete(updatedNode.id).                *)
(***************************************************************************)
\* The request saveSite issues for a node.
SaveRequest(node) ==
    [kind |-> IF StartsWithTemp(node.id) THEN "create" ELSE "update",
     siteId |-> IF StartsWithTemp(node.id) THEN 0 ELSE Number(node.id),
     nodeId |-> node.id,
     url |-> node.description,
     name |-> IF node.title = "" THEN DEFAULT_NAME ELSE node.title,
     ping_interval |-> IF node.ping_interval = NoInterval
                       THEN DEFAULT_PING_INTERVAL ELSE node.ping_interval,
     phase |-> "sent",
     saved |-> [id |-> 0, url |-> "", name |-> "", ping_interval |-> NoInterval],
     uid |-> node.uid,      \* history: the entity the node was a snapshot of
     preEdit |-> FALSE]     \* history: the entity was edited after this was issued

PayloadOf(w) == [url |-> w.url, name |-> w.name, ping_interval |-> w.ping_interval]

TimerFire(k) ==
    LET node == timers[k].node
        b == burst[node.uid]
    IN  /\ timers[k].remaining = 0
        /\ Len(writes) < MaxInFlight
        /\ writes' = IF node.type = "website"
                     THEN Append(writes, SaveRequest(node)) ELSE writes
        /\ timers' = cancelWebsiteSyncTimer(timers, node.id)
        /\ burst' = [burst EXCEPT ![node.uid] =
                        [b EXCEPT !.writes = Min(@ + 1, 2),
                                  !.sent = IF b.writes = 0
                                           THEN PayloadOf(SaveRequest(node)) ELSE @,
                                  !.sentAt = IF b.writes = 0 THEN b.since ELSE @]]
        /\ issuedCreates' =
              IF node.type = "website" /\ SaveRequest(node).kind = "create"
              THEN [issuedCreates EXCEPT ![node.uid] = Min(@ + 1, 2)]
              ELSE issuedCreates
        /\ lastOp' = [op |-> "timerFire", id |-> node.id]
        /\ UNCHANGED <<nodes, isDirty, deletes, loads, server, nextSiteId, nextTemp, ops,
                       removed, failed, creates, selectedNodeId, interfered, synced>>

\* Time passes by half a window; a timer that is due fires first.
Tick ==
    /\ DOMAIN timers # {}
    /\ \A k \in DOMAIN timers : timers[k].remaining > 0
    /\ timers' = [k \in DOMAIN timers |->
                    [timers[k] EXCEPT !.remaining = @ - HalfWindow]]
    /\ burst' = [u \in UIDs |->
                    IF burst[u].n >= 1 /\ burst[u].writes = 0
                    THEN [burst[u] EXCEPT
                            !.since = Min(@ + HalfWindow, DEBOUNCE_MS + HalfWindow)]
                    ELSE burst[u]]
    /\ lastOp' = [op |-> "tick", id |-> ""]
    /\ UNCHANGED <<nodes, isDirty, writes, deletes, loads, server, nextSiteId,
                   nextTemp, ops, removed, failed, creates,
                   selectedNodeId, issuedCreates, interfered, synced>>

(***************************************************************************)
(* The backend's /sites endpoints.  A request is "sent" until the backend   *)
(* has handled it ("ok" with the response, or "err"); the client then       *)
(* settles it in a separate step, so responses can overtake one another.    *)
(***************************************************************************)
\* POST /sites and PUT /sites/{id}
HandledWrite(w, ok) ==
    IF ~ok THEN [w EXCEPT !.phase = "err"]
    ELSE [w EXCEPT !.phase = "ok",
                   !.saved = [id |-> IF w.kind = "create" THEN nextSiteId ELSE w.siteId,
                              url |-> w.url, name |-> w.name,
                              ping_interval |-> w.ping_interval]]

ServerWrite(i, ok) ==
    LET w == writes[i]
        can == IF w.kind = "create" THEN nextSiteId <= MaxSiteId
               ELSE w.siteId \in DOMAIN server
        h == HandledWrite(w, ok)
    IN  /\ w.phase = "sent"
        /\ ok => can
        /\ writes' = [writes EXCEPT ![i] = h]
        /\ server' = IF ok
                     THEN [k \in DOMAIN server \cup {h.saved.id} |->
                             IF k = h.saved.id THEN PayloadOf(w) ELSE server[k]]
                     ELSE server
        /\ nextSiteId' = IF ok /\ w.kind = "create" THEN nextSiteId + 1 ELSE nextSiteId
        /\ lastOp' = [op |-> "serverWrite", id |-> w.nodeId]
        /\ UNCHANGED <<nodes, isDirty, timers, deletes, loads, nextTemp, ops, burst,
                       removed, failed, creates,
                   selectedNodeId, issuedCreates, interfered, synced>>

\* DELETE /sites/{id}: not-found and transport failures are both non-2xx/throw.
ServerDelete(i, ok) ==
    LET d == deletes[i]
    IN  /\ d.phase = "sent"
        /\ ok => d.siteId \in DOMAIN server
        /\ deletes' = [deletes EXCEPT ![i].phase =
                          IF ok THEN "ok"
                          ELSE IF d.siteId \in DOMAIN server THEN "err" ELSE "notfound"]
        /\ server' = IF ok THEN [k \in DOMAIN server \ {d.siteId} |-> server[k]]
                     ELSE server
        /\ lastOp' = [op |-> "serverDelete", id |-> d.nodeId]
        /\ UNCHANGED <<nodes, isDirty, timers, writes, loads, nextSiteId, nextTemp,
                       ops, burst, removed, failed, creates,
                   selectedNodeId, issuedCreates, interfered, synced>>

\* GET /sites: the listing in id order
Listing(srv) ==
    LET ids == DOMAIN srv
        nth(i) == CHOOSE x \in ids : Cardinality({y \in ids : y < x}) = i - 1
    IN  [i \in 1..Cardinality(ids) |->
            [id |-> nth(i), url |-> srv[nth(i)].url, name |-> srv[nth(i)].name,
             ping_interval |-> srv[nth(i)].ping_interval]]

ServerList(i, ok) ==
    /\ loads[i].phase = "sent"
    /\ loads' = [loads EXCEPT ![i] =
                    IF ok THEN [phase |-> "ok", sites |-> Listing(server)]
                    ELSE [phase |-> "err", sites |-> <<>>]]
    /\ lastOp' = [op |-> "serverList", id |-> ""]
    /\ UNCHANGED <<nodes, isDirty, timers, writes, deletes, server, nextSiteId,
                   nextTemp, ops, burst, removed, failed, creates,
                   selectedNodeId, issuedCreates, interfered, synced>>

(***************************************************************************)
(* saveSite after its await: the commit of the response, or the catch.      *)
(***************************************************************************)
\* buildWebsiteMetadata({ title: saved.name, description: saved.url, ... })
SavedMetadata(saved) ==
    buildWebsiteMetadata([title |-> saved.name, description |-> saved.url,
                          ping_interval |-> saved.ping_interval])

\* (mutant) the response's fields are applied but the temporary id is kept
SavedNodes_KeepId(ns, nodeId, saved) ==
    [i \in 1..Len(ns) |->
        IF ns[i].id = nodeId
        THEN [ns[i] EXCEPT !.title = saved.name, !.description = saved.url,
                           !.ping_interval = saved.ping_interval,
                           !.metadata = SavedMetadata(saved)]
        ELSE ns[i]]

\* (mutant) a response for a node that is not in the list adds the node
SavedNodes_Upsert(ns, nodeId, saved) ==
    IF HasNode(ns, nodeId)
    THEN [i \in 1..Len(ns) |->
            IF ns[i].id = nodeId
            THEN [ns[i] EXCEPT !.id = String(saved.id), !.title = saved.name,
                               !.description = saved.url,
                               !.ping_interval = saved.ping_interval,
                               !.metadata = SavedMetadata(saved)]
            ELSE ns[i]]
    ELSE Append(ns, [id |-> String(saved.id), type |-> "website",
                     title |-> saved.name, description |-> saved.url,
                     ping_interval |-> saved.ping_interval,
                     metadata |-> SavedMetadata(saved), uid |-> String(saved.id)])

\* state.nodes.map(...) of saveSite
SavedNodes(ns, nodeId, saved) ==
    [i \in 1..Len(ns) |->
        IF ns[i].id = nodeId
        THEN [ns[i] EXCEPT !.id = String(saved.id), !.title = saved.name,
                           !.description = saved.url,
                           !.ping_interval = saved.ping_interval,
                           !.metadata = SavedMetadata(saved)]
        ELSE ns[i]]

\* (mutant) the catch drops the node whose write failed
NodesAfterSave_DropOnError(ns, w) ==
    IF w.phase = "ok" THEN SavedNodes(ns, w.nodeId, w.saved)
    ELSE FilterOut(ns, w.nodeId)

\* saveSite after the await: set(...) on success, catch { console.error } else
NodesAfterSave(ns, w) ==
    IF w.phase = "ok" THEN SavedNodes(ns, w.nodeId, w.saved) ELSE ns

saveSiteSettle(i) ==
    LET w == writes[i]
        touched == {nodes[j].uid : j \in {j \in 1..Len(nodes) : nodes[j].id = w.nodeId}}
    IN  /\ w.phase \in {"ok", "err"}
        /\ writes' = RemoveAt(writes, i)
        /\ nodes' = NodesAfterSave(nodes, w)
        /\ IF w.phase = "ok"
           THEN /\ isDirty' = FALSE
                /\ burst' = Disturb(burst, touched)
                /\ synced' = [u \in UIDs |->
                                IF u \in touched
                                THEN [url |-> w.saved.url, name |-> w.saved.name,
                                      ping_interval |-> w.saved.ping_interval]
                                ELSE synced[u]]
           ELSE UNCHANGED <<isDirty, burst, synced>>
        /\ failed' = IF w.phase = "ok" THEN failed \ {w.uid} ELSE failed \cup {w.uid}
        /\ interfered' = IF w.phase = "ok" THEN interfered
                          ELSE interfered \cup {w.uid}
        /\ lastOp' = [op |-> IF w.phase = "ok" THEN "saveOk" ELSE "saveErr",
                      id |-> w.nodeId]
        /\ UNCHANGED <<timers, deletes, loads, server, nextSiteId, nextTemp, ops,
                       removed, creates, selectedNodeId, issuedCreates>>

(***************************************************************************)
(* deleteSiteNode(nodeId, siteId): the call, and its finally block          *)
(***************************************************************************)
deleteSiteNode(nodeId, siteId) ==
    /\ ops < MaxOps
    /\ ops' = ops + 1
    /\ Len(deletes) < MaxDeletes
    /\ deletes' = Append(deletes, [nodeId |-> nodeId, siteId |-> siteId,
                                   phase |-> "sent"])
    /\ removed' = removed \cup {nodes[j].uid : j \in {j \in 1..Len(nodes) : nodes[j].id = nodeId}}
    /\ interfered' = interfered \cup {nodes[j].uid : j \in {j \in 1..Len(nodes) : nodes[j].id = nodeId}}
    /\ lastOp' = [op |-> "deleteCall", id |-> nodeId]
    /\ UNCHANGED <<nodes, isDirty, timers, writes, loads, server, nextSiteId,
                   nextTemp, burst, failed, creates, selectedNodeId, issuedCreates, synced>>

DeleteSite ==
    \E i \in 1..Len(nodes) :
        /\ nodes[i].type = "website"
        /\ ~StartsWithTemp(nodes[i].id)
        /\ deleteSiteNode(nodes[i].id, Number(nodes[i].id))

\* (mutant) the local removal sits in the try block: only a successful delete removes
NodesAfterDelete_OnlyOnSuccess(ns, d) ==
    IF d.phase = "ok" THEN FilterOut(ns, d.nodeId) ELSE ns

\* finally { set((state) => ({ nodes: state.nodes.filter(...) })) }
NodesAfterDelete(ns, d) == FilterOut(ns, d.nodeId)

deleteSiteNodeFinally(i) ==
    LET d == deletes[i]
        touched == {nodes[j].uid : j \in {j \in 1..Len(nodes) : nodes[j].id = d.nodeId}}
    IN  /\ d.phase # "sent"
        /\ deletes' = RemoveAt(deletes, i)
        /\ timers' = cancelWebsiteSyncTimer(timers, d.nodeId)
        /\ nodes' = NodesAfterDelete(nodes, d)
        /\ isDirty' = TRUE
        /\ burst' = Disturb(burst, touched)
        /\ lastOp' = [op |-> IF d.phase = "ok" THEN "deleteOk"
                             ELSE IF d.phase = "notfound" THEN "deleteNotFound"
                             ELSE "deleteErr",
                      id |-> d.nodeId]
        /\ UNCHANGED <<writes, loads, server, nextSiteId, nextTemp, ops,
                       removed, failed, creates,
                   selectedNodeId, issuedCreates, interfered, synced>>

(***************************************************************************)
(* removeNode(nodeId)                                                       *)
(***************************************************************************)
removeNode(nodeId) ==
    LET touched == {nodes[j].uid : j \in {j \in 1..Len(nodes) : nodes[j].id = nodeId}}
    IN  /\ ops < MaxOps
        /\ ops' = ops + 1
        /\ timers' = cancelWebsiteSyncTimer(timers, nodeId)
        /\ nodes' = FilterOut(nodes, nodeId)
        /\ isDirty' = TRUE
        /\ burst' = Disturb(burst, touched)
        /\ removed' = removed \cup touched
        /\ interfered' = interfered \cup touched
        /\ lastOp' = [op |-> "removeNode", id |-> nodeId]
        /\ UNCHANGED <<writes, deletes, loads, server, nextSiteId, nextTemp, failed,
                       creates, selectedNodeId, issuedCreates, synced>>

Remove == \E i \in 1..Len(nodes) : removeNode(nodes[i].id)

(***************************************************************************)
(* initFromDb(): the call, and the commit of the listing (or the catch)     *)
(***************************************************************************)
initFromDb ==
    /\ ops < MaxOps
    /\ ops' = ops + 1
    /\ Len(loads) < MaxLoads
    /\ loads' = Append(loads, [phase |-> "sent", sites |-> <<>>])
    /\ lastOp' = [op |-> "loadCall", id |-> ""]
    /\ UNCHANGED <<nodes, isDirty, timers, writes, deletes, server, nextSiteId,
                   nextTemp, burst, removed, failed, creates,
                   selectedNodeId, issuedCreates, interfered, synced>>

\* sites.map((site) => ({ id: String(site.id), type: "website", ... }))
LoadedNodes(sites) ==
    [i \in 1..Len(sites) |->
        LET interval == IF sites[i].ping_interval = NoInterval
                        THEN DEFAULT_PING_INTERVAL ELSE sites[i].ping_interval
        IN  [id |-> String(sites[i].id), type |-> "website", title |-> sites[i].name,
             description |-> sites[i].url, ping_interval |-> interval,
             metadata |-> buildWebsiteMetadata(
                             [title |-> sites[i].name, description |-> sites[i].url,
                              ping_interval |-> interval]),
             uid |-> String(sites[i].id)]]

\* (mutant) the listing is added to the nodes the store already holds
NodesAfterLoad_Merge(ns, sites) == ns \o LoadedNodes(sites)

\* set({ nodes, isDirty: false })
NodesAfterLoad(ns, sites) == LoadedNodes(sites)

initFromDbSettle(i) ==
    LET l == loads[i]
    IN  /\ l.phase \in {"ok", "err"}
        /\ loads' = RemoveAt(loads, i)
        /\ IF l.phase = "ok"
           THEN /\ nodes' = NodesAfterLoad(nodes, l.sites)
                /\ isDirty' = FALSE
                /\ burst' = Disturb(burst, UIDs)
                /\ synced' = [u \in UIDs |->
                                IF HasUid(LoadedNodes(l.sites), u)
                                THEN FieldsOf(LoadedNodes(l.sites)[
                                                 UidIdx(LoadedNodes(l.sites), u)])
                                ELSE synced[u]]
           ELSE UNCHANGED <<nodes, isDirty, burst, synced>>
        /\ removed' = IF l.phase = "ok"
                      THEN removed \ {String(l.sites[j].id) : j \in 1..Len(l.sites)}
                      ELSE removed
        /\ interfered' = IF l.phase = "ok"
                         THEN interfered \cup {u \in UIDs : burst[u].n >= 1}
                         ELSE interfered
        /\ lastOp' = [op |-> IF l.phase = "ok" THEN "loadOk" ELSE "loadErr", id |-> ""]
        /\ UNCHANGED <<timers, writes, deletes, server, nextSiteId, nextTemp, ops,
                       failed, creates, selectedNodeId, issuedCreates>>

(***************************************************************************)
(* saveFlow()                                                               *)
(***************************************************************************)
saveFlow ==
    /\ ops < MaxOps
    /\ ops' = ops + 1
    /\ isDirty' = FALSE
    /\ lastOp' = [op |-> "saveFlow", id |-> ""]
    /\ UNCHANGED <<nodes, selectedNodeId, timers, writes, deletes, loads, creates,
                   server, nextSiteId, nextTemp, burst, removed, failed,
                   issuedCreates, interfered, synced>>

(***************************************************************************)
(* The store's next-state relation                                          *)
(***************************************************************************)

(***************************************************************************)
(* The dashboard page: the overview view (fetchOverviewData) and the site   *)
(* view (fetchSiteData), each started by an effect that owns an             *)
(* AbortController, by the auto-refresh interval and by the refresh button. *)
(***************************************************************************)
MaxRequests == 4      \* requests issued in a run
MaxEpoch == 2         \* parameter changes of one view in a run
MaxAdvances == 2      \* steps of time observed within one interval

DEFAULT_LIMIT == 500

TimeRanges == {"1m", "10m"}
SiteUrls == {"s1", "s2"}
Limits == {500, 1000}
Views == {"overview", "site"}

VARIABLES
    timeRange,            \* useState("1m")
    selectedSiteUrl,      \* useState("")
    limit,                \* useState(DEFAULT_LIMIT)
    autoRefreshEnabled,   \* useState(true)
    autoRefreshInterval,  \* useState(1): seconds, kept in tenths of a second
    intervalTimer,        \* the window.setInterval of the auto-refresh effect
    mounted,              \* the page is rendered (its effects are not cleaned up)
    overview,             \* the committed overview response (NoData: null)
    overviewError,        \* "" stands for null
    isOverviewLoading,
    siteAggregate,        \* the committed site aggregate (NoData: null)
    logs,                 \* the committed raw logs (NoData: [])
    error,                \* "" stands for null
    lastUpdated,          \* 0 stands for null; else the instant of a commit
    isSiteLoading,
    reqs,                 \* requests in flight, in the order they were issued
    issued,               \* history: requests issued so far (bounds the run)
    epoch,                \* history: per view, how often its parameters changed
    lastDone              \* history: the request settled last, and its outcome

dashVars == <<timeRange, selectedSiteUrl, limit, autoRefreshEnabled,
              autoRefreshInterval, intervalTimer, mounted, overview,
              overviewError, isOverviewLoading, siteAggregate, logs, error,
              lastUpdated, isSiteLoading, reqs, issued, epoch, lastDone>>

NoData == [seq |-> 0, range |-> "", url |-> "", limit |-> 0, epoch |-> 0]
NoRequest == [view |-> "", seq |-> 0, range |-> "", url |-> "", limit |-> 0,
              epoch |-> 0, signal |-> "none", origin |-> ""]

\* What a response carries: the parameters it was asked for.
DataOf(r) == [seq |-> r.seq, range |-> r.range, url |-> r.url, limit |-> r.limit,
              epoch |-> r.epoch]

\* (mutant) one controller for the page: aborting reaches every live signal
Aborted_All(rs, view) ==
    [i \in 1..Len(rs) |->
        IF rs[i].signal = "live" THEN [rs[i] EXCEPT !.signal = "aborted"] ELSE rs[i]]

\* controller.abort() of an effect's cleanup: the signal that effect handed out
Aborted(rs, view) ==
    [i \in 1..Len(rs) |->
        IF rs[i].view = view /\ rs[i].signal = "live"
        THEN [rs[i] EXCEPT !.signal = "aborted"] ELSE rs[i]]

\* The axios.get of fetchOverviewData
OverviewRequest(seq, range, ep, signal, origin) ==
    [view |-> "overview", seq |-> seq, range |-> range, url |-> "", limit |-> 0,
     epoch |-> ep, signal |-> signal, origin |-> origin]

\* The two axios.get of fetchSiteData, awaited together
SiteRequest(seq, range, url, lim, ep, signal, origin) ==
    [view |-> "site", seq |-> seq, range |-> range, url |-> url, limit |-> lim,
     epoch |-> ep, signal |-> signal, origin |-> origin]

\* clamp(value, min, max)
clamp(value, min, max) == Min(Max(value, min), max)

\* No interval is set.  (steps and fired are history: the steps of time seen
\* since the interval last started counting, and how long it had counted when
\* it last fired.)
NoTimer == [period |-> 0, elapsed |-> 0, steps |-> 0, fired |-> 0]

\* clamp(autoRefreshInterval, 1, 60) * 1000: the period in milliseconds of a
\* value in tenths of a second
IntervalPeriod(interval) == clamp(interval, 1 * 10, 60 * 10) * 100

\* (mutant) the interval is set whether auto-refresh is enabled or not
IntervalEffect_Always(enabled, interval) ==
    [period |-> IntervalPeriod(interval), elapsed |-> 0, steps |-> 0, fired |-> 0]

\* The auto-refresh effect, run after its cleanup: no interval when
\* auto-refresh is disabled, else a new one that starts counting
IntervalEffect(enabled, interval) ==
    IF ~enabled THEN NoTimer
    ELSE [period |-> IntervalPeriod(interval), elapsed |-> 0, steps |-> 0,
          fired |-> 0]

DashInit ==
    /\ timeRange = "1m"
    /\ selectedSiteUrl = ""
    /\ limit = DEFAULT_LIMIT
    /\ autoRefreshEnabled = TRUE
    /\ autoRefreshInterval = 1 * 10
    /\ intervalTimer = IntervalEffect(TRUE, 1 * 10)
    /\ mounted = TRUE
    /\ overview = NoData
    /\ overviewError = ""
    /\ isOverviewLoading = TRUE
    /\ siteAggregate = NoData
    /\ logs = NoData
    /\ error = ""
    /\ lastUpdated = 0
    /\ isSiteLoading = FALSE
    \* the mount effects have run: the overview request is out, the site view
    \* has no site to ask for
    /\ reqs = <<OverviewRequest(1, "1m", 0, "live", "effect")>>
    /\ issued = 1
    /\ epoch = [v \in Views |-> 0]
    /\ lastDone = [req |-> NoRequest, outcome |-> "", cancelled |-> FALSE,
                   rejected |-> "none"]

\* fetchOverviewData(signal) and fetchSiteData(signal) up to their await, for
\* the parameters range/url/lim; `views` are the views that are (re)started.
\* A site view without a selected site clears its data and issues nothing.
Started(rs, views, range, url, lim, eps, signal, origin) ==
    LET withOv == IF "overview" \in views
                  THEN Append(rs, OverviewRequest(issued + 1, range,
                                                  eps["overview"], signal, origin))
                  ELSE rs
        n == issued + (IF "overview" \in views THEN 1 ELSE 0)
    IN  IF "site" \in views /\ url # ""
        THEN Append(withOv, SiteRequest(n + 1, range, url, lim, eps["site"],
                                        signal, origin))
        ELSE withOv

NeededRequests(views, url) ==
    (IF "overview" \in views THEN 1 ELSE 0)
    + (IF "site" \in views /\ url # "" THEN 1 ELSE 0)

\* (mutant) starting a site load clears what the view shows
DataAfterStart_Clears(url, current) == NoData

\* fetchSiteData before its await: without a selected site setLogs([]) and
\* setSiteAggregate(null); with one, the data is left as it is
DataAfterStart(url, current) == IF url = "" THEN NoData ELSE current

\* One render with changed parameters: the cleanups of the effects whose
\* fetch callback changed abort their controllers, then the effects start the
\* fetches again with new controllers.
Restart(views, range, url, lim) ==
    LET eps == [v \in Views |-> IF v \in views THEN epoch[v] + 1 ELSE epoch[v]]
        rs == IF "site" \in views
              THEN Aborted(IF "overview" \in views THEN Aborted(reqs, "overview")
                           ELSE reqs, "site")
              ELSE Aborted(reqs, "overview")
    IN  /\ mounted
        /\ issued + NeededRequests(views, url) <= MaxRequests
        /\ \A v \in Views : eps[v] <= MaxEpoch
        /\ epoch' = eps
        \* the auto-refresh effect depends on both fetch callbacks
        /\ intervalTimer' = IntervalEffect(autoRefreshEnabled, autoRefreshInterval)
        /\ reqs' = Started(rs, views, range, url, lim, eps, "live", "effect")
        /\ issued' = issued + NeededRequests(views, url)
        /\ isOverviewLoading' = IF "overview" \in views THEN TRUE
                                ELSE isOverviewLoading
        /\ IF "site" \in views
           THEN /\ logs' = DataAfterStart(url, logs)
                /\ siteAggregate' = DataAfterStart(url, siteAggregate)
                /\ isSiteLoading' = IF url = "" THEN isSiteLoading ELSE TRUE
           ELSE UNCHANGED <<logs, siteAggregate, isSiteLoading>>
        /\ UNCHANGED <<overview, overviewError, error, lastUpdated, lastDone,
                       autoRefreshInterval, mounted>>

\* setTimeRange: both fetch callbacks depend on the range
SetTimeRange(r) ==
    /\ r # timeRange
    /\ timeRange' = r
    /\ Restart(Views, r, selectedSiteUrl, limit)
    /\ UNCHANGED <<selectedSiteUrl, limit, autoRefreshEnabled>>

\* setSelectedSiteUrl: only fetchSiteData depends on the site
SelectSite(u) ==
    /\ u # selectedSiteUrl
    /\ selectedSiteUrl' = u
    /\ Restart({"site"}, timeRange, u, limit)
    /\ UNCHANGED <<timeRange, limit, autoRefreshEnabled>>

\* setLimit: only fetchSiteData depends on the limit
SetLimit(l) ==
    /\ l # limit
    /\ limit' = l
    /\ Restart({"site"}, timeRange, selectedSiteUrl, l)
    /\ UNCHANGED <<timeRange, selectedSiteUrl, autoRefreshEnabled>>

\* fetchOverviewData(); fetchSiteData(); with no signal: the interval callback
\* and handleManualRefresh
Refresh(origin) ==
    /\ mounted
    /\ issued + NeededRequests(Views, selectedSiteUrl) <= MaxRequests
    /\ reqs' = Started(reqs, Views, timeRange, selectedSiteUrl, limit, epoch,
                       "none", origin)
    /\ issued' = issued + NeededRequests(Views, selectedSiteUrl)
    /\ isOverviewLoading' = TRUE
    /\ logs' = DataAfterStart(selectedSiteUrl, logs)
    /\ siteAggregate' = DataAfterStart(selectedSiteUrl, siteAggregate)
    /\ isSiteLoading' = IF selectedSiteUrl = "" THEN isSiteLoading ELSE TRUE
    /\ UNCHANGED <<timeRange, selectedSiteUrl, limit, autoRefreshEnabled,
                   autoRefreshInterval, mounted, overview,
                   overviewError, error, lastUpdated, epoch, lastDone>>

\* The interval callback: it runs when the period of the interval has
\* elapsed, and the interval starts counting again.
AutoRefreshTick ==
    /\ intervalTimer # NoTimer
    /\ intervalTimer.elapsed = intervalTimer.period
    /\ Refresh("tick")
    /\ intervalTimer' = [intervalTimer EXCEPT !.elapsed = 0, !.steps = 0,
                                             !.fired = intervalTimer.elapsed]

handleManualRefresh == Refresh("manual") /\ UNCHANGED intervalTimer

\* The checkbox: the auto-refresh effect is cleaned up and run again
SetAutoRefreshEnabled ==
    /\ mounted
    /\ autoRefreshEnabled' = ~autoRefreshEnabled
    /\ intervalTimer' = IntervalEffect(~autoRefreshEnabled, autoRefreshInterval)
    /\ UNCHANGED <<timeRange, selectedSiteUrl, limit, overview, overviewError,
                   isOverviewLoading, siteAggregate, logs, error, lastUpdated,
                   isSiteLoading, reqs, issued, epoch, lastDone,
                   autoRefreshInterval, mounted>>

\* What is typed into the interval field: "abc", "0.5" and "100".
AutoRefreshInputs == {NotNumeric, Numeral(5), Numeral(1000)}

\* Number(event.target.value) || 1, in tenths
NumberOrOne(text) ==
    IF ~text.finite \/ text.tenths = 0 THEN 1 * 10 ELSE text.tenths

\* The interval field's onChange: setAutoRefreshInterval(clamp(..., 1, 60));
\* a changed value cleans the auto-refresh effect up and runs it again.
SetAutoRefreshInterval(text) ==
    LET value == clamp(NumberOrOne(text), 1 * 10, 60 * 10)
    IN  /\ mounted
        /\ value # autoRefreshInterval
        /\ autoRefreshInterval' = value
        /\ intervalTimer' = IntervalEffect(autoRefreshEnabled, value)
        /\ UNCHANGED <<timeRange, selectedSiteUrl, limit, autoRefreshEnabled,
                       overview, overviewError, isOverviewLoading, siteAggregate,
                       logs, error, lastUpdated, isSiteLoading, reqs, issued,
                       epoch, lastDone, mounted>>

\* Time passes by d milliseconds, no further than the moment the interval
\* is due.
TimeSteps == {1000, 59000}

Advance(d) ==
    /\ intervalTimer # NoTimer
    /\ intervalTimer.elapsed + d <= intervalTimer.period
    /\ intervalTimer.steps < MaxAdvances
    /\ intervalTimer' = [intervalTimer EXCEPT !.elapsed = @ + d, !.steps = @ + 1]
    /\ UNCHANGED <<timeRange, selectedSiteUrl, limit, autoRefreshEnabled,
                   autoRefreshInterval, mounted, overview, overviewError,
                   isOverviewLoading, siteAggregate, logs, error, lastUpdated,
                   isSiteLoading, reqs, issued, epoch, lastDone>>

\* The page is left: every effect is cleaned up, which aborts the two
\* controllers and clears the interval.
Unmount ==
    /\ mounted
    /\ mounted' = FALSE
    /\ reqs' = Aborted(Aborted(reqs, "overview"), "site")
    /\ intervalTimer' = NoTimer
    /\ UNCHANGED <<timeRange, selectedSiteUrl, limit, autoRefreshEnabled,
                   autoRefreshInterval, overview, overviewError,
                   isOverviewLoading, siteAggregate, logs, error, lastUpdated,
                   isSiteLoading, issued, epoch, lastDone>>

(***************************************************************************)
(* The continuation of a fetch after its await.  outcome: "ok" (the reads   *)
(* resolved), "fail" (one rejected with an error), "cancel" (axios rejected *)
(* with CanceledError, which takes an aborted signal).  rejected: which of  *)
(* the two reads of a failing site load was rejected.                       *)
(***************************************************************************)
Reads == {"aggregate", "logs"}

\* (mutant) the response is committed without looking at the signal
Commits_Unguarded(r, outcome) == outcome = "ok"

\* if (signal?.aborted) return; in the try block
Commits(r, outcome) == outcome = "ok" /\ r.signal # "aborted"

\* (mutant) the catch reports nothing
ReportsError_Never(r, outcome) == FALSE

\* if (err instanceof CanceledError || signal?.aborted) return; in the catch
ReportsError(r, outcome) == outcome = "fail" /\ r.signal # "aborted"

\* finally { if (!signal?.aborted) setLoading(false) }
LoadingAfter(r, current) == IF r.signal = "aborted" THEN current ELSE FALSE

Outcomes(r) == IF r.signal = "aborted" THEN {"ok", "fail", "cancel"} ELSE {"ok", "fail"}

\* The reads of a load that can be the rejected one
Rejections(r, outcome) ==
    IF r.view = "site" /\ outcome = "fail" THEN Reads ELSE {"none"}

\* (mutant) each read is awaited by itself: the response of the read that
\* resolved is committed
CommitsRead_Settled(r, outcome, rejected, read) ==
    r.signal # "aborted" /\ (outcome = "ok" \/ (outcome = "fail" /\ rejected # read))

\* const [aggregateResponse, logsResponse] = await Promise.all([...]): the
\* response of a read reaches the try block only when both reads resolved
CommitsRead(r, outcome, rejected, read) == Commits(r, outcome)

Settle(i, outcome, rejected) ==
    LET r == reqs[i]
    IN  /\ outcome \in Outcomes(r)
        /\ rejected \in Rejections(r, outcome)
        /\ reqs' = RemoveAt(reqs, i)
        /\ lastDone' = [req |-> r, outcome |-> outcome,
                        cancelled |-> r.signal = "aborted", rejected |-> rejected]
        /\ IF r.view = "overview"
           THEN /\ overview' = IF Commits(r, outcome) THEN DataOf(r) ELSE overview
                /\ overviewError' = IF Commits(r, outcome) THEN ""
                                    ELSE IF ReportsError(r, outcome)
                                         THEN "overview failed" ELSE overviewError
                /\ isOverviewLoading' = LoadingAfter(r, isOverviewLoading)
                /\ UNCHANGED <<siteAggregate, logs, error, lastUpdated, isSiteLoading>>
           ELSE /\ siteAggregate' = IF CommitsRead(r, outcome, rejected, "aggregate")
                                    THEN DataOf(r) ELSE siteAggregate
                /\ logs' = IF CommitsRead(r, outcome, rejected, "logs")
                           THEN DataOf(r) ELSE logs
                /\ error' = IF Commits(r, outcome) THEN ""
                            ELSE IF ReportsError(r, outcome)
                                 THEN "site failed" ELSE error
                /\ lastUpdated' = IF Commits(r, outcome) THEN r.seq ELSE lastUpdated
                /\ isSiteLoading' = LoadingAfter(r, isSiteLoading)
                /\ UNCHANGED <<overview, overviewError, isOverviewLoading>>
        /\ UNCHANGED <<timeRange, selectedSiteUrl, limit, autoRefreshEnabled, issued,
                       epoch, autoRefreshInterval, intervalTimer, mounted>>


(***************************************************************************)
(* The statistics of the dashboard (src/src/utils/stats.ts): pure functions *)
(* over log records and aggregated buckets.                                 *)
(*                                                                          *)
(* A JavaScript value of type number | null | undefined is a record with    *)
(* its kind; a number is the fraction num / den, which keeps the quotients  *)
(* of the averages exact.  Inputs are given in thousandths.                 *)
(***************************************************************************)
MaxRecords == 3       \* log records in an input
MaxBuckets == 2       \* aggregated buckets in an input

Null == [kind |-> "null", num |-> 0, den |-> 1]
Undefined == [kind |-> "undefined", num |-> 0, den |-> 1]
NaN == [kind |-> "NaN", num |-> 0, den |-> 1]
Milli(k) == [kind |-> "number", num |-> k, den |-> 1000]
Whole(k) == [kind |-> "number", num |-> k, den |-> 1]

\* a / b rounded to the nearest integer, halves upwards (a >= 0, b > 0)
RoundDiv(a, b) == (2 * a + b) \div (2 * b)

\* a ^ b for b >= 0
RECURSIVE Power(_, _)
Power(a, b) == IF b = 0 THEN 1 ELSE a * Power(a, b - 1)

\* typeof value === "number" && Number.isFinite(value) ? value : null
asNumber(value) == IF value.kind = "number" THEN value ELSE Null

\* (mutant) the digits after the rounded ones are cut off
toFixedNumber_Truncates(value, digits) ==
    [kind |-> "number", num |-> (value.num * Power(10, digits)) \div value.den,
     den |-> Power(10, digits)]

\* Number(value.toFixed(digits)): the nearest multiple of 10^-digits, the
\* larger one of two equally near
toFixedNumber(value, digits) ==
    [kind |-> "number", num |-> RoundDiv(value.num * Power(10, digits), value.den),
     den |-> Power(10, digits)]

\* Math.round(value)
MathRoundNumber(value) == Whole(RoundDiv(value.num, value.den))

\* The ISO-8601 timestamps of the records, and new Date(timestamp).getTime()
Timestamps == <<"1970-01-01T00:00:01Z", "1970-01-01T00:00:02Z",
                "1970-01-01T00:00:03Z", "1970-01-01T00:00:04Z",
                "1970-01-01T00:00:05Z">>

DateGetTime(timestamp) ==
    1000 * (CHOOSE k \in 1..Len(Timestamps) : Timestamps[k] = timestamp)

\* Field values of a LogRecord: absent ones, 0, 0.125, 10 and 20 for the
\* latency, 7 for the ping
LatencyValues == {Null, NaN, Milli(0), Milli(125), Milli(10000), Milli(20000)}
PingValues == {Undefined, Milli(7000)}
\* HTTP statuses of a LogRecord: absent ones, 399 and 400
HttpStatuses == {Null, Undefined, Whole(399), Whole(400)}

\* The k-th record of an input carries the k-th timestamp.
LogRecords(k) ==
    [timestamp : {Timestamps[k]}, latency_ms : LatencyValues, ping_ms : PingValues,
     http_status : {Whole(200)}]
    \cup [timestamp : {Timestamps[k]}, latency_ms : {Null}, ping_ms : {Undefined},
          http_status : HttpStatuses]

RECURSIVE LogsOfLength(_)
LogsOfLength(n) ==
    IF n = 0 THEN {<<>>}
    ELSE {Append(logs0, log) : logs0 \in LogsOfLength(n - 1), log \in LogRecords(n)}

LogInputs == UNION {LogsOfLength(n) : n \in 0..MaxRecords}

\* logs.reduce((sum, log) => sum + (asNumber(log[field]) ?? 0), 0), over
\* values in thousandths
RECURSIVE SumOf(_, _)
SumOf(logs0, field) ==
    IF Len(logs0) = 0 THEN 0
    ELSE SumOf(SubSeq(logs0, 1, Len(logs0) - 1), field)
         + (IF asNumber(logs0[Len(logs0)][field]) = Null THEN 0
            ELSE asNumber(logs0[Len(logs0)][field]).num)

\* logs.map((log) => asNumber(log.field)).filter((value) => value !== null)
PresentValues(logs0, field) ==
    SelectSeq(logs0, LAMBDA log : asNumber(log[field]) # Null)

\* (mutant) the mean is taken over all records
calcAvgLatency_OverAll(logs0) ==
    IF Len(PresentValues(logs0, "latency_ms")) = 0 THEN Null
    ELSE MathRoundNumber([kind |-> "number",
                          num |-> SumOf(logs0, "latency_ms"),
                          den |-> 1000 * Len(logs0)])

calcAvgLatency(logs0) ==
    LET values == PresentValues(logs0, "latency_ms")
    IN  IF Len(values) = 0 THEN Null
        ELSE MathRoundNumber([kind |-> "number",
                              num |-> SumOf(values, "latency_ms"),
                              den |-> 1000 * Len(values)])

calcAvgPing(logs0) ==
    LET values == PresentValues(logs0, "ping_ms")
    IN  IF Len(values) = 0 THEN Null
        ELSE MathRoundNumber([kind |-> "number",
                              num |-> SumOf(values, "ping_ms"),
                              den |-> 1000 * Len(values)])

\* log.http_status < 400, after the check for null and undefined
IsSuccessful(log) ==
    IF log.http_status.kind \in {"null", "undefined"} THEN FALSE
    ELSE /\ log.http_status.kind = "number"
         /\ log.http_status.num < 400 * log.http_status.den

\* (mutant) a status of 400 counts as a success
calcUptime_Includes400(logs0) ==
    IF Len(logs0) = 0 THEN Null
    ELSE LET successful ==
                 Len(SelectSeq(logs0, LAMBDA log :
                        /\ log.http_status.kind = "number"
                        /\ log.http_status.num <= 400 * log.http_status.den))
         IN  MathRoundNumber([kind |-> "number", num |-> successful * 100,
                              den |-> Len(logs0)])

calcUptime(logs0) ==
    IF Len(logs0) = 0 THEN Null
    ELSE LET successful == Len(SelectSeq(logs0, IsSuccessful))
         IN  MathRoundNumber([kind |-> "number", num |-> successful * 100,
                              den |-> Len(logs0)])

\* Math.max(1, Math.ceil(n / maxPoints)) for n >= 1.  n / 0 is Infinity, which
\* n + 1 stands for: a bucket size beyond every index of n logs.
BucketSize(n, maxPoints) ==
    IF maxPoints = 0 THEN n + 1
    ELSE IF maxPoints < 0 THEN 1
    ELSE Max(1, (n + maxPoints - 1) \div maxPoints)

\* safeLogs.slice(i, i + bucketSize)
Slice(safeLogs, i, bucketSize) ==
    SubSeq(safeLogs, i + 1, Min(i + bucketSize, Len(safeLogs)))

\* (mutant) the point carries the timestamp of the first record of its bucket
ChartPoint_First(bucket, field) ==
    [timestamp |-> DateGetTime(bucket[1].timestamp),
     value |-> toFixedNumber([kind |-> "number", num |-> SumOf(bucket, field),
                              den |-> 1000 * Len(bucket)], 2),
     meta |-> bucket[1]]

\* The point buildTimeseries pushes for one bucket
ChartPoint(bucket, field) ==
    [timestamp |-> DateGetTime(bucket[Len(bucket)].timestamp),
     value |-> toFixedNumber([kind |-> "number", num |-> SumOf(bucket, field),
                              den |-> 1000 * Len(bucket)], 2),
     meta |-> bucket[Len(bucket)]]

\* for (let i = 0; i < safeLogs.length; i += bucketSize) points.push(...)
RECURSIVE PointsFrom(_, _, _, _)
PointsFrom(safeLogs, field, i, bucketSize) ==
    IF i >= Len(safeLogs) THEN <<>>
    ELSE <<ChartPoint(Slice(safeLogs, i, bucketSize), field)>>
         \o PointsFrom(safeLogs, field, i + bucketSize, bucketSize)

\* (mutant) records without a value are not filtered out
SafeLogs_All(logs0, field) == logs0

\* logs.filter((log) => asNumber(log[field]) !== null)
SafeLogs(logs0, field) == SelectSeq(logs0, LAMBDA log : asNumber(log[field]) # Null)

buildTimeseries(logs0, field, maxPoints) ==
    LET safeLogs == SafeLogs(logs0, field)
    IN  IF Len(safeLogs) = 0 THEN <<>>
        ELSE PointsFrom(safeLogs, field, 0, BucketSize(Len(safeLogs), maxPoints))

\* Aggregated buckets as the backend sends them: a count, four averages that
\* are numbers or null, and traffic-light counts that sum to the count at most.
BucketCounts == {0, 1, 2, 3}
TrafficLights ==
    [green : {0, 1}, orange : {0}, red : {0, 2}]

\* The four averages of a bucket: none, some or all of them present
BucketAverages ==
    {[latency_avg |-> Null, ping_avg |-> Null, ssl_days_left_avg |-> Null,
      dns_success_rate |-> Null],
     [latency_avg |-> Milli(0), ping_avg |-> Null, ssl_days_left_avg |-> Null,
      dns_success_rate |-> Null],
     [latency_avg |-> Milli(100000), ping_avg |-> Null, ssl_days_left_avg |-> Null,
      dns_success_rate |-> Null],
     [latency_avg |-> Null, ping_avg |-> Milli(50000),
      ssl_days_left_avg |-> Milli(30000), dns_success_rate |-> Null],
     [latency_avg |-> Milli(0), ping_avg |-> Milli(50000),
      ssl_days_left_avg |-> Null, dns_success_rate |-> Milli(100000)],
     [latency_avg |-> Milli(100000), ping_avg |-> Milli(50000),
      ssl_days_left_avg |-> Milli(30000), dns_success_rate |-> Milli(100000)]}

BucketRecords ==
    {[timestamp |-> Timestamps[1], count |-> c, latency_avg |-> a.latency_avg,
      ping_avg |-> a.ping_avg, ssl_days_left_avg |-> a.ssl_days_left_avg,
      dns_success_rate |-> a.dns_success_rate, traffic_light |-> t] :
        c \in BucketCounts, a \in BucketAverages, t \in TrafficLights}

AggregatedBuckets ==
    {b \in BucketRecords :
        b.traffic_light.green + b.traffic_light.orange + b.traffic_light.red
            <= b.count}

RECURSIVE BucketsOfLength(_)
BucketsOfLength(n) ==
    IF n = 0 THEN {<<>>}
    ELSE {Append(bs, b) : bs \in BucketsOfLength(n - 1), b \in AggregatedBuckets}

BucketInputs == UNION {BucketsOfLength(n) : n \in 0..MaxBuckets}

\* value ?? 0, in thousandths
OrZero(value) == IF value.kind \in {"null", "undefined"} THEN 0 ELSE value.num

\* The reduce of summarizeAggregatedBuckets
RECURSIVE Totals(_)
Totals(bs) ==
    IF Len(bs) = 0
    THEN [count |-> 0, latency |-> 0, ping |-> 0, ssl |-> 0, dns |-> 0,
          traffic |-> [green |-> 0, orange |-> 0, red |-> 0]]
    ELSE LET acc == Totals(SubSeq(bs, 1, Len(bs) - 1))
             bucket == bs[Len(bs)]
             count == IF bucket.count = 0 THEN 0 ELSE bucket.count
         IN  [count |-> acc.count + count,
              latency |-> acc.latency + OrZero(bucket.latency_avg) * count,
              ping |-> acc.ping + OrZero(bucket.ping_avg) * count,
              ssl |-> acc.ssl + OrZero(bucket.ssl_days_left_avg) * count,
              dns |-> acc.dns + OrZero(bucket.dns_success_rate) * count,
              traffic |-> [green |-> acc.traffic.green + bucket.traffic_light.green,
                           orange |-> acc.traffic.orange + bucket.traffic_light.orange,
                           red |-> acc.traffic.red + bucket.traffic_light.red]]

\* (mutant) the check for an empty total is missing
SummaryMetric_NoNull(total, count) ==
    toFixedNumber([kind |-> "number", num |-> total,
                   den |-> 1000 * Max(1, count)], 2)

\* totals.count === 0 ? null : toFixedNumber(total / safeCount)
SummaryMetric(total, count) ==
    IF count = 0 THEN Null
    ELSE toFixedNumber([kind |-> "number", num |-> total,
                        den |-> 1000 * Max(1, count)], 2)

NullSummary ==
    [latency_avg |-> Null, ping_avg |-> Null, ssl_days_left_avg |-> Null,
     dns_success_rate |-> Null,
     traffic_light |-> [green |-> 0, orange |-> 0, red |-> 0]]

summarizeAggregatedBuckets(bs) ==
    IF Len(bs) = 0 THEN NullSummary
    ELSE LET totals == Totals(bs)
         IN  [latency_avg |-> SummaryMetric(totals.latency, totals.count),
              ping_avg |-> SummaryMetric(totals.ping, totals.count),
              ssl_days_left_avg |-> SummaryMetric(totals.ssl, totals.count),
              dns_success_rate |-> SummaryMetric(totals.dns, totals.count),
              traffic_light |-> totals.traffic]

(***************************************************************************)
(* The statistics as a state machine: an input is drawn, logs or buckets,   *)
(* and a step applies one function to it and keeps what it returned.        *)
(***************************************************************************)
VARIABLES
    records,      \* the LogRecord[] given to the functions over logs
    buckets,      \* the AggregatedBucket[] given to summarizeAggregatedBuckets
    timeseries,   \* the last call of buildTimeseries and its result
    average,      \* the last call of calcAvgLatency / calcAvgPing and its result
    summary,      \* the last call of summarizeAggregatedBuckets and its result
    uptime        \* the last call of calcUptime and its result

statsVars == <<records, buckets, timeseries, average, summary, uptime>>

Fields == {"latency_ms", "ping_ms"}
MaxPointsInputs == {0, 1, 2, 3, 5}

NoTimeseries == [called |-> FALSE, field |-> "", maxPoints |-> 0, points |-> <<>>]
NoAverage == [called |-> FALSE, field |-> "", value |-> Null]
NoSummary == [called |-> FALSE, value |-> NullSummary]
NoUptime == [called |-> FALSE, value |-> Null]

\* Nothing is computed: the state of the statistics in the runs of the store
\* and of the dashboard.
StatsIdle ==
    /\ records = <<>>
    /\ buckets = <<>>
    /\ timeseries = NoTimeseries
    /\ average = NoAverage
    /\ summary = NoSummary
    /\ uptime = NoUptime

StatsInit ==
    /\ \/ records \in LogInputs /\ buckets = <<>>
       \/ records = <<>> /\ buckets \in BucketInputs
    /\ timeseries = NoTimeseries
    /\ average = NoAverage
    /\ summary = NoSummary
    /\ uptime = NoUptime

\* No function has been applied to the input yet.
Fresh == ~timeseries.called /\ ~average.called /\ ~summary.called /\ ~uptime.called

CallBuildTimeseries(field, maxPoints) ==
    /\ Fresh /\ buckets = <<>>
    /\ timeseries' = [called |-> TRUE, field |-> field, maxPoints |-> maxPoints,
                      points |-> buildTimeseries(records, field, maxPoints)]
    /\ average' = NoAverage
    /\ summary' = NoSummary
    /\ UNCHANGED <<records, buckets, uptime>>

CallCalcAvgLatency ==
    /\ Fresh /\ buckets = <<>>
    /\ average' = [called |-> TRUE, field |-> "latency_ms",
                   value |-> calcAvgLatency(records)]
    /\ timeseries' = NoTimeseries
    /\ summary' = NoSummary
    /\ UNCHANGED <<records, buckets, uptime>>

CallCalcAvgPing ==
    /\ Fresh /\ buckets = <<>>
    /\ average' = [called |-> TRUE, field |-> "ping_ms",
                   value |-> calcAvgPing(records)]
    /\ timeseries' = NoTimeseries
    /\ summary' = NoSummary
    /\ UNCHANGED <<records, buckets, uptime>>

CallCalcUptime ==
    /\ Fresh /\ buckets = <<>>
    /\ uptime' = [called |-> TRUE, value |-> calcUptime(records)]
    /\ timeseries' = NoTimeseries
    /\ average' = NoAverage
    /\ summary' = NoSummary
    /\ UNCHANGED <<records, buckets>>

CallSummarize ==
    /\ Fresh /\ records = <<>>
    /\ summary' = [called |-> TRUE, value |-> summarizeAggregatedBuckets(buckets)]
    /\ timeseries' = NoTimeseries
    /\ average' = NoAverage
    /\ UNCHANGED <<records, buckets, uptime>>

(***************************************************************************)
(* Specifications                                                           *)
(***************************************************************************)
(***************************************************************************)
(* The filters of the dashboard's log table: the traffic-light set, the     *)
(* HTTP status range and the search term.                                   *)
(***************************************************************************)
TRAFFIC_OPTIONS == {"green", "orange", "red"}

VARIABLES
    trafficFilter,        \* useState(new Set(TRAFFIC_OPTIONS))
    httpStatusRange,      \* useState({ min: 100, max: 599 })
    searchTerm,           \* useState("")
    lastToggle            \* history: the value toggled last and the set before

filterVars == <<trafficFilter, httpStatusRange, searchTerm, lastToggle>>

FilterInit ==
    /\ trafficFilter = TRAFFIC_OPTIONS
    /\ httpStatusRange = [min |-> 100, max |-> 599]
    /\ searchTerm = ""
    /\ lastToggle = [traffic |-> "", prev |-> {}]

\* (mutant) the toggle removes the last value as it removes any other
Toggled_NoReset(prev, traffic) ==
    IF traffic \in prev THEN prev \ {traffic} ELSE prev \cup {traffic}

\* The updater of setTrafficFilter: delete the value when the set has it,
\* all three when that leaves the set empty; add it otherwise
Toggled(prev, traffic) ==
    IF traffic \in prev
    THEN IF prev \ {traffic} = {} THEN TRAFFIC_OPTIONS ELSE prev \ {traffic}
    ELSE prev \cup {traffic}

handleToggleTraffic(traffic) ==
    /\ trafficFilter' = Toggled(trafficFilter, traffic)
    /\ lastToggle' = [traffic |-> traffic, prev |-> trafficFilter]
    /\ UNCHANGED <<httpStatusRange, searchTerm>>

\* The bounds typed into the status range: below, inside and above 100..599
StatusBounds == {0, 404, 700}

handleStatusRangeChange(range) ==
    /\ httpStatusRange' = [min |-> clamp(range.min, 100, 599),
                           max |-> clamp(range.max, 100, 599)]
    /\ UNCHANGED <<trafficFilter, searchTerm, lastToggle>>

SearchTerms == {"", "s1"}

setSearchTerm(value) ==
    /\ searchTerm' = value
    /\ UNCHANGED <<trafficFilter, httpStatusRange, lastToggle>>

vars == <<storeVars, dashVars, statsVars, filterVars>>

Init == StoreInit /\ DashInit /\ StatsIdle /\ FilterInit

StoreNext ==
    \/ (\E type \in {"website", "llm"} : AddNode(type)) /\ UNCHANGED <<dashVars, statsVars, filterVars>>
    \/ (\E u \in PromptUrls : \E n \in PromptNames : \E v \in PromptIntervals : createWebsiteNode(u, n, v)) /\ UNCHANGED <<dashVars, statsVars, filterVars>>
    \/ (\E i \in 1..Len(creates) : \E ok \in BOOLEAN : ServerCreate(i, ok)) /\ UNCHANGED <<dashVars, statsVars, filterVars>>
    \/ (\E i \in 1..Len(creates) : createWebsiteNodeSettle(i)) /\ UNCHANGED <<dashVars, statsVars, filterVars>>
    \/ (Edit) /\ UNCHANGED <<dashVars, statsVars, filterVars>>
    \/ (EditClick) /\ UNCHANGED <<dashVars, statsVars, filterVars>>
    \/ (\E k \in DOMAIN timers : TimerFire(k)) /\ UNCHANGED <<dashVars, statsVars, filterVars>>
    \/ (Tick) /\ UNCHANGED <<dashVars, statsVars, filterVars>>
    \/ (\E i \in 1..Len(writes) : \E ok \in BOOLEAN : ServerWrite(i, ok)) /\ UNCHANGED <<dashVars, statsVars, filterVars>>
    \/ (\E i \in 1..Len(writes) : saveSiteSettle(i)) /\ UNCHANGED <<dashVars, statsVars, filterVars>>
    \/ (DeleteSite) /\ UNCHANGED <<dashVars, statsVars, filterVars>>
    \/ (\E i \in 1..Len(deletes) : \E ok \in BOOLEAN : ServerDelete(i, ok)) /\ UNCHANGED <<dashVars, statsVars, filterVars>>
    \/ (\E i \in 1..Len(deletes) : deleteSiteNodeFinally(i)) /\ UNCHANGED <<dashVars, statsVars, filterVars>>
    \/ (Remove) /\ UNCHANGED <<dashVars, statsVars, filterVars>>
    \/ (saveFlow) /\ UNCHANGED <<dashVars, statsVars, filterVars>>
    \/ (initFromDb) /\ UNCHANGED <<dashVars, statsVars, filterVars>>
    \/ (\E i \in 1..Len(loads) : \E ok \in BOOLEAN : ServerList(i, ok)) /\ UNCHANGED <<dashVars, statsVars, filterVars>>
    \/ (\E i \in 1..Len(loads) : initFromDbSettle(i)) /\ UNCHANGED <<dashVars, statsVars, filterVars>>

DashNext ==
    \/ (\E r \in TimeRanges : SetTimeRange(r)) /\ UNCHANGED <<storeVars, statsVars, filterVars>>
    \/ (\E u \in SiteUrls : SelectSite(u)) /\ UNCHANGED <<storeVars, statsVars, filterVars>>
    \/ (\E l \in Limits : SetLimit(l)) /\ UNCHANGED <<storeVars, statsVars, filterVars>>
    \/ (AutoRefreshTick) /\ UNCHANGED <<storeVars, statsVars, filterVars>>
    \/ (handleManualRefresh) /\ UNCHANGED <<storeVars, statsVars, filterVars>>
    \/ (SetAutoRefreshEnabled) /\ UNCHANGED <<storeVars, statsVars, filterVars>>
    \/ (\E text \in AutoRefreshInputs : SetAutoRefreshInterval(text)) /\ UNCHANGED <<storeVars, statsVars, filterVars>>
    \/ (\E d \in TimeSteps : Advance(d)) /\ UNCHANGED <<storeVars, statsVars, filterVars>>
    \/ (Unmount) /\ UNCHANGED <<storeVars, statsVars, filterVars>>
    \/ (\E i \in 1..Len(reqs) : \E outcome \in {"ok", "fail", "cancel"} : \E rejected \in Reads \cup {"none"} : Settle(i, outcome, rejected)) /\ UNCHANGED <<storeVars, statsVars, filterVars>>

StoreSpec == Init /\ [][StoreNext]_vars

DashSpec == Init /\ [][DashNext]_vars

StatsNext ==
    \/ (\E field \in Fields : \E maxPoints \in MaxPointsInputs : CallBuildTimeseries(field, maxPoints)) /\ UNCHANGED <<storeVars, dashVars, filterVars>>
    \/ (CallCalcAvgLatency) /\ UNCHANGED <<storeVars, dashVars, filterVars>>
    \/ (CallCalcAvgPing) /\ UNCHANGED <<storeVars, dashVars, filterVars>>
    \/ (CallCalcUptime) /\ UNCHANGED <<storeVars, dashVars, filterVars>>
    \/ (CallSummarize) /\ UNCHANGED <<storeVars, dashVars, filterVars>>

\* The statistics start from a drawn input, the store and the page at rest.
StatsStart == StoreInit /\ DashInit /\ StatsInit /\ FilterInit

StatsSpec == StatsStart /\ [][StatsNext]_vars

FilterNext ==
    \/ (\E traffic \in TRAFFIC_OPTIONS : handleToggleTraffic(traffic)) /\ UNCHANGED <<storeVars, dashVars, statsVars>>
    \/ (\E lo \in StatusBounds : \E hi \in StatusBounds : handleStatusRangeChange([min |-> lo, max |-> hi])) /\ UNCHANGED <<storeVars, dashVars, statsVars>>
    \/ (\E value \in SearchTerms : setSearchTerm(value)) /\ UNCHANGED <<storeVars, dashVars, statsVars>>

FilterSpec == Init /\ [][FilterNext]_vars

(***************************************************************************)
(* Properties of the store                                                  *)
(***************************************************************************)
\* What saveSite sends for accumulated fields acc: the url and the interval as
\* they are (30 when the entity has none), the name with "" replaced.
ExpectedPayload(acc) ==
    [url |-> acc.url,
     name |-> IF acc.name = "" THEN DEFAULT_NAME ELSE acc.name,
     ping_interval |-> IF acc.ping_interval = NoInterval
                       THEN DEFAULT_PING_INTERVAL ELSE acc.ping_interval]

TimersFor(u) == {k \in DOMAIN timers : timers[k].node.uid = u}

\* A run of N >= 1 edits of one entity, each made while the timer of the
\* previous one was pending, and no other transition acting on the entity
\* before the write: until the write, exactly one timer is pending, due 500 ms
\* after the last edit and holding the accumulated fields; afterwards exactly
\* one write has been issued, at 500 ms, with payload sentFor(accumulated).
BurstOneWrite(u, sentFor(_)) ==
    LET b == burst[u]
    IN  (b.n >= 1 /\ b.clean) =>
            IF b.writes = 0
            THEN /\ Cardinality(TimersFor(u)) = 1
                 /\ \A k \in TimersFor(u) :
                        /\ timers[k].remaining = DEBOUNCE_MS - b.since
                        /\ FieldsOf(timers[k].node) = b.acc
            ELSE /\ b.writes = 1
                 /\ b.sentAt = DEBOUNCE_MS
                 /\ b.sent = sentFor(b.acc)
                 /\ TimersFor(u) = {}

RawPayload(acc) ==
    [url |-> acc.url, name |-> acc.name,
     ping_interval |-> IF acc.ping_interval = NoInterval
                       THEN DEFAULT_PING_INTERVAL ELSE acc.ping_interval]

\* C3 (as stated): N >= 1 edits of one website entity, each less than 500 ms
\* after the previous one and nothing else acting on the entity, give exactly
\* one write, issued 500 ms after the last edit, whose payload is the
\* accumulated url, name and interval.
C3_OneWriteRawPayload == \A u \in UIDs : BurstOneWrite(u, RawPayload)

\* C3 (amended): the same, the payload being the accumulated url and interval
\* and the accumulated name, an empty name being sent as the default name.
C3_OneWriteDebounced == \A u \in UIDs : BurstOneWrite(u, ExpectedPayload)

\* Three edits accumulated into one write that has been issued.
C3_Witness ==
    \E u \in UIDs : /\ burst[u].n = 3 /\ burst[u].clean /\ burst[u].writes = 1
                    /\ lastOp.op = "timerFire"

\* C4: for every entity at most one debounce-triggered write (create or
\* update) is in flight at any time.
C4_OneWriteInFlight ==
    \A i, j \in 1..Len(writes) : i # j => writes[i].uid # writes[j].uid

Agrees(n, data) ==
    /\ HasTitle(data) => n.title = data.title
    /\ HasDescription(data) => n.description = data.description
    /\ HasInterval(data) => n.ping_interval = data.ping_interval

\* C5: local data is never rolled back; in particular the completion of a
\* persist that was started before an edit leaves the entity with the values
\* that edit set.
C5_NoRollback ==
    [][\A i \in 1..Len(writes) :
          (/\ writes' = RemoveAt(writes, i)
           /\ writes[i].preEdit
           /\ lastOp'.op \in {"saveOk", "saveErr"})
          => \A j \in 1..Len(nodes') :
                nodes'[j].uid = writes[i].uid
                => Agrees(nodes'[j], burst[writes[i].uid].last)]_vars

\* C6: the write issued when a debounce timer fires carries the url, name and
\* interval the entity has in the local store at that moment (as saveSite
\* would send them), not those of an earlier snapshot.
C6_SendsCurrentState ==
    [][Len(writes') = Len(writes) + 1
       => LET w == writes'[Len(writes')]
          IN  HasUid(nodes, w.uid)
              => PayloadOf(w) = PayloadOf(SaveRequest(nodes[UidIdx(nodes, w.uid)]))
      ]_vars

\* C9: saveSite issues a create for a node with a temporary id and an update
\* to Number(id) otherwise; on success the local node that had the old id gets
\* the id, url, name and interval of the backend's answer, and every other
\* node is unchanged.
C9_PersistCreateOrUpdate ==
    [][/\ Len(writes') = Len(writes) + 1
          => LET w == writes'[Len(writes')]
             IN  \E k \in DOMAIN timers \ DOMAIN timers' :
                    LET node == timers[k].node
                    IN  /\ w.nodeId = node.id
                        /\ StartsWithTemp(node.id) => w.kind = "create"
                        /\ ~StartsWithTemp(node.id)
                              => w.kind = "update" /\ String(w.siteId) = node.id
       /\ lastOp'.op = "saveOk"
          => \E i \in 1..Len(writes) :
                /\ writes' = RemoveAt(writes, i)
                /\ writes[i].phase = "ok"
                /\ Len(nodes') = Len(nodes)
                /\ \A j \in 1..Len(nodes) :
                      IF nodes[j].id = writes[i].nodeId
                      THEN /\ nodes'[j].id = String(writes[i].saved.id)
                           /\ FieldsOf(nodes'[j]) =
                                [url |-> writes[i].saved.url,
                                 name |-> writes[i].saved.name,
                                 ping_interval |-> writes[i].saved.ping_interval]
                           /\ nodes'[j].type = nodes[j].type
                      ELSE nodes'[j] = nodes[j]
      ]_vars

\* A create has succeeded: the node that had the temporary id carries the
\* server's id, next to another node.
C9_Witness ==
    /\ lastOp.op = "saveOk"
    /\ StartsWithTemp(lastOp.id)
    /\ ~HasNode(nodes, lastOp.id)
    /\ \E j \in 1..Len(nodes) : nodes[j].uid = lastOp.id /\ nodes[j].id = "2"
    /\ Len(nodes) = 2

DeleteOutcomes == {"deleteOk", "deleteNotFound", "deleteErr"}

\* C10: deleteSiteNode ends with the node absent from the local list whatever
\* the backend answered: success, not-found or another failure.
C10_RemovedWhateverTheOutcome ==
    lastOp.op \in DeleteOutcomes => ~HasNode(nodes, lastOp.id)

\* A delete whose backend record had already vanished has been settled.
C10_Witness ==
    /\ lastOp.op = "deleteNotFound"
    /\ ~HasNode(nodes, lastOp.id)

\* The step issued a write (writes are appended, settled ones removed).
WriteIssued == Len(writes') = Len(writes) + 1

IssuedWrite == writes'[Len(writes')]

\* C11: once removeNode or deleteSiteNode has been called for an entity, no
\* create or update of that entity is issued, also while the backend delete
\* is in flight and also for an entity whose temporary id was replaced.
C11_NoWriteAfterRemove ==
    [][WriteIssued => IssuedWrite.uid \notin removed]_vars

\* A failed write changes nothing locally and schedules nothing; every write
\* is issued by a due timer, for the node that timer holds.
FailureSchedulesNothing ==
    /\ lastOp'.op = "saveErr"
          => /\ nodes' = nodes
             /\ timers' = timers
             /\ isDirty' = isDirty
             /\ Len(writes') = Len(writes) - 1
    /\ WriteIssued
          => \E k \in DOMAIN timers \ DOMAIN timers' :
                /\ timers[k].remaining = 0
                /\ PayloadOf(IssuedWrite) = PayloadOf(SaveRequest(timers[k].node))
                /\ IssuedWrite.uid = timers[k].node.uid

\* updateNodeData is accepted for an entity whose write failed.
StillEditable ==
    \A j \in 1..Len(nodes) :
        (nodes[j].uid \in failed /\ ops < MaxOps)
        => ENABLED (\E data \in EditInputs(nodes[j]) : updateNodeData(nodes[j].id, data))

C16_LoadReplacesAll ==
    [][lastOp'.op = "loadOk"
       => \E i \in 1..Len(loads) :
             /\ loads' = RemoveAt(loads, i)
             /\ loads[i].phase = "ok"
             /\ isDirty' = FALSE
             /\ Len(nodes') = Len(loads[i].sites)
             /\ \A j \in 1..Len(nodes') :
                   LET site == loads[i].sites[j]
                   IN  /\ nodes'[j].id = String(site.id)
                       /\ nodes'[j].type = "website"
                       /\ FieldsOf(nodes'[j]) =
                             [url |-> site.url, name |-> site.name,
                              ping_interval |-> site.ping_interval]]_vars

\* A load has replaced a list that held a node the backend never had.
C16_Witness ==
    /\ lastOp.op = "loadOk"
    /\ nextTemp = 2 /\ nextSiteId = 2 /\ "temp-1" \notin removed
    /\ Len(nodes) = 1 /\ nodes[1].id = "1"
    /\ ~isDirty

\* C18: updateNodeData on one node leaves the pending timer and the fields of
\* every other node as they are, and the result of a write, whenever it
\* arrives, changes no node but the one whose id the write was issued for.
C18_EntitiesIndependent ==
    [][/\ lastOp'.op \in {"edit", "editOther"}
          => /\ \A k \in DOMAIN timers \ {lastOp'.id} :
                    k \in DOMAIN timers' /\ timers'[k] = timers[k]
             /\ Len(nodes') = Len(nodes)
             /\ \A j \in 1..Len(nodes) :
                    nodes[j].id # lastOp'.id => nodes'[j] = nodes[j]
       /\ lastOp'.op \in {"saveOk", "saveErr"}
          => /\ timers' = timers
             /\ Len(nodes') = Len(nodes)
             /\ \A j \in 1..Len(nodes) :
                    nodes[j].id # lastOp'.id => nodes'[j] = nodes[j]]_vars

\* Two entities have timers pending; the later edit of one has not restarted
\* the timer of the other.
C18_Witness ==
    /\ lastOp.op = "edit"
    /\ \E a, b \in DOMAIN timers :
          /\ timers[a].node.uid # timers[b].node.uid
          /\ a = lastOp.id
          /\ timers[a].remaining = DEBOUNCE_MS
          /\ timers[b].remaining = HalfWindow
          /\ HasNode(nodes, b)

\* C19: creating a site is optimistic: while the create of a user action is
\* awaiting the backend the local list holds a record for it with a temporary
\* id, and a successful create replaces that id by the server's, adding no
\* node.
C19_OptimisticCreate ==
    /\ [](\A i \in 1..Len(creates) :
            \E j \in 1..Len(nodes) :
                /\ StartsWithTemp(nodes[j].id)
                /\ nodes[j].description = creates[i].url)
    /\ [][lastOp'.op = "createOk" => Len(nodes') = Len(nodes)]_vars

\* C20: in every state the metadata of each website node is the summary
\* buildWebsiteMetadata gives for the node's current url, name and interval.
C20_MetadataCurrent ==
    \A j \in 1..Len(nodes) :
        nodes[j].type = "website"
        => nodes[j].metadata =
              buildWebsiteMetadata([title |-> nodes[j].title,
                                    description |-> nodes[j].description,
                                    ping_interval |-> nodes[j].ping_interval])

\* An edit has set the interval of a website node to 3600 and its metadata
\* shows 3600.
C20_Witness ==
    /\ lastOp.op = "edit"
    /\ \E j \in 1..Len(nodes) :
          /\ nodes[j].id = lastOp.id
          /\ nodes[j].type = "website"
          /\ nodes[j].ping_interval = MAX_PING_INTERVAL
          /\ nodes[j].metadata[3].value.number = <<3, 6, 0, 0>>

\* C21: in every reachable state every website node of the local list has a
\* poll interval (30 when its ping_interval is undefined) that is an integer
\* between MIN_PING_INTERVAL and MAX_PING_INTERVAL, whether a create, an
\* edit, a load or the answer of a write set it.
C21_IntervalInRange ==
    \A i \in 1..Len(nodes) :
        nodes[i].type = "website"
            => PollInterval(nodes[i]) \in MIN_PING_INTERVAL..MAX_PING_INTERVAL

\* createWebsiteNode has added a node whose typed interval, "0.4", was
\* raised to the minimum, and an edit has typed "5000" into another node,
\* which holds the maximum.
C21_Witness ==
    /\ lastOp.op = "edit"
    /\ \E i, j \in 1..Len(nodes) :
          /\ nodes[i].id = lastOp.id
          /\ nodes[i].type = "website"
          /\ nodes[i].ping_interval = MAX_PING_INTERVAL
          /\ nodes[j].type = "website"
          /\ nodes[j].ping_interval = MIN_PING_INTERVAL

\* The number typed is outside [MIN_PING_INTERVAL, MAX_PING_INTERVAL], or no
\* number.
OutOfRange(text) ==
    \/ ~text.finite
    \/ text.tenths < MIN_PING_INTERVAL * 10
    \/ text.tenths > MAX_PING_INTERVAL * 10

\* C22: a create or an edit given a poll interval outside [1, 3600] is
\* rejected: the step leaves the node list as it was and issues no backend
\* write (no createSite call, no saveSite call, no timer that leads to one).
C22_OutOfRangeRejected ==
    [][/\ \A u \in PromptUrls : \A n \in PromptNames : \A v \in PromptIntervals :
            OutOfRange(v) /\ createWebsiteNode(u, n, v)
                => UNCHANGED <<nodes, creates, writes, timers>>
       /\ \A i \in 1..Len(nodes) : \A nextUrl \in EditUrls :
            \A nextName \in EditNames : \A raw \in EditIntervals :
                OutOfRange(raw) /\ handleEditClick(nodes[i].id, nextUrl, nextName, raw)
                    => UNCHANGED <<nodes, creates, writes, timers>>]_vars

\* C32: for an entity created locally with a temporary id, saveSite issues at
\* most one create request (POST /sites), whatever the edits, timers and
\* completions.
C32_OneCreatePerEntity ==
    \A u \in UIDs : StartsWithTemp(u) => issuedCreates[u] <= 1

\* No timer of entity u is pending and no write of it is in flight.
Quiescent(u) ==
    /\ TimersFor(u) = {}
    /\ \A i \in 1..Len(writes) : writes[i].uid # u

\* Entity u came from the backend, has been edited, and nothing but edits and
\* successful writes has happened to it since.
OnlyEdited(u) ==
    /\ ~StartsWithTemp(u)
    /\ burst[u].n >= 1
    /\ u \notin interfered

\* C33: after edits of a saved website entity whose writes all succeed, in
\* whatever order the responses arrive, once no timer is pending and no write
\* is in flight the local entity and the backend record have the url, name
\* and poll interval of the last edit.
C33_ConvergesToLastEdit ==
    \A j \in 1..Len(nodes) :
        LET n == nodes[j]
            last == PayloadOf(SaveRequest(
                        [id |-> n.id, uid |-> n.uid,
                         description |-> burst[n.uid].acc.url,
                         title |-> burst[n.uid].acc.name,
                         ping_interval |-> burst[n.uid].acc.ping_interval]))
        IN  n.type = "website" /\ OnlyEdited(n.uid) /\ Quiescent(n.uid)
                => /\ FieldsOf(n) = last
                   /\ Number(n.id) \in DOMAIN server
                   /\ server[Number(n.id)] = last

\* (used by C34) a step that settles write i
SettlesWrite(i) ==
    /\ writes' = RemoveAt(writes, i)
    /\ lastOp'.op \in {"saveOk", "saveErr"}
    /\ lastOp'.id = writes[i].nodeId

\* C34: the late completion of a persist of an entity that has been removed
\* does not bring the entity back: it adds no entity, leaves an absent entity
\* absent, and changes no other entity's data.
C34_RemovedStaysRemoved ==
    [][\A i \in 1..Len(writes) :
          SettlesWrite(i) /\ writes[i].uid \in removed
              => /\ Len(nodes') = Len(nodes)
                 /\ \A j \in 1..Len(nodes) :
                       nodes[j].id # writes[i].nodeId => nodes'[j] = nodes[j]
                 /\ ~HasUid(nodes, writes[i].uid) => ~HasUid(nodes', writes[i].uid)
                 /\ ~HasNode(nodes, writes[i].nodeId) => nodes' = nodes]_vars

\* A write of an entity that was removed while the write was in flight has
\* succeeded and has been settled; the entity is not in the list.
C34_Witness ==
    /\ lastOp.op = "saveOk"
    /\ lastOp.id \in removed
    /\ ~HasUid(nodes, lastOp.id)
    /\ ~HasNode(nodes, lastOp.id)
    /\ Len(nodes) >= 1

\* C35: when isDirty is false nothing is unsynced: no website entity has a
\* pending debounce timer, and no website entity has a url, name or interval
\* that differs from what was last successfully persisted or loaded for it.
C35_CleanMeansSynced ==
    ~isDirty
        => /\ \A k \in DOMAIN timers : timers[k].node.type # "website"
           /\ \A j \in 1..Len(nodes) :
                 nodes[j].type = "website" /\ synced[nodes[j].uid] # NoSync
                     => FieldsOf(nodes[j]) = synced[nodes[j].uid]

\* C38: selectedNodeId is undefined or the id of an entity in the local list,
\* also after a removal and after saveSite has replaced a temporary id.
C38_SelectionInList ==
    selectedNodeId = NoSelection \/ HasNode(nodes, selectedNodeId)

(***************************************************************************)
(* Properties of the dashboard page                                         *)
(***************************************************************************)
\* The step settled a request (request numbers are never reused).
Settled == lastDone' # lastDone

\* The committed data of a view
DataIn(v) == IF v = "overview" THEN overview ELSE siteAggregate

\* The step committed the response of the request it settled.
CommittedNow ==
    /\ Settled
    /\ IF lastDone'.req.view = "overview"
       THEN overview' = DataOf(lastDone'.req)
       ELSE siteAggregate' = DataOf(lastDone'.req) /\ logs' = DataOf(lastDone'.req)

\* A request in flight that was issued for parameters the view has left
Superseded(r) == r.epoch < epoch[r.view]

\* C1: once a request has been issued for new parameters of a view, no
\* response of a request issued for the previous parameters is committed to
\* that view, and every such request still in flight has been cancelled,
\* however it was started (parameter change, auto-refresh tick, manual refresh).
C1_StaleNeverCommitted ==
    /\ [](\A i \in 1..Len(reqs) : Superseded(reqs[i]) => reqs[i].signal = "aborted")
    /\ [][CommittedNow => lastDone'.req.epoch = epoch[lastDone'.req.view]]_vars

\* C2: within one view the committed data never goes back in request order:
\* the response of a request is never committed after the response of a
\* request that was issued later.
C2_CommitsInRequestOrder ==
    [][Settled => \A v \in Views : DataIn(v)'.seq >= DataIn(v).seq]_vars

ViewState == <<overview, overviewError, isOverviewLoading, siteAggregate, logs,
               error, lastUpdated, isSiteLoading>>

\* C7: the completion of a load whose signal was aborted before the response
\* or the failure arrived changes neither the data, the error, lastUpdated
\* nor the loading flag of any view.
C7_CancelledChangesNothing ==
    [][Settled /\ lastDone'.cancelled => UNCHANGED ViewState]_vars

\* The response of a site load has arrived after its signal was aborted, while
\* the view was loading the new parameters.
C7_Witness ==
    /\ lastDone.cancelled
    /\ lastDone.outcome = "ok"
    /\ lastDone.req.view = "site"
    /\ isSiteLoading

LiveRequests(v) == {i \in 1..Len(reqs) : reqs[i].view = v /\ reqs[i].signal # "aborted"}

\* C8: in every state each view has at most one request in flight that is not
\* cancelled; a tick or a manual refresh does not add a second live one.
C8_OneLiveRequestPerView ==
    \A v \in Views : Cardinality(LiveRequests(v)) <= 1

\* C12 (as stated): a successful load of either view commits the response and
\* records lastUpdated, the instant of that commit.
C12_CommitRecordsLastUpdated ==
    [][CommittedNow => lastUpdated' = lastDone'.req.seq]_vars

\* C13: a load that fails for a reason other than cancellation sets the error
\* of its view and leaves the data and lastUpdated as they are; a load of the
\* view that succeeds clears the error.
C13_FailureSetsErrorOnly ==
    [][Settled
       => LET errorAfter == IF lastDone'.req.view = "overview"
                            THEN overviewError' ELSE error'
          IN  /\ (lastDone'.outcome = "fail" /\ ~lastDone'.cancelled)
                    => /\ errorAfter # ""
                       /\ UNCHANGED <<overview, siteAggregate, logs, lastUpdated>>
              /\ (lastDone'.outcome = "ok" /\ ~lastDone'.cancelled)
                    => errorAfter = ""]_vars

\* A site load has failed after an earlier one was committed: the error is
\* set next to the data of the earlier load.
C13_Witness ==
    /\ lastDone.outcome = "fail"
    /\ ~lastDone.cancelled
    /\ lastDone.req.view = "site"
    /\ error # ""
    /\ siteAggregate # NoData
    /\ lastUpdated = siteAggregate.seq

\* C14: with a site selected, a step that commits no response (the start of a
\* load by a parameter change, a tick or a manual refresh among them) leaves
\* the data of both views as it is.
C14_StartKeepsData ==
    [][(selectedSiteUrl' # "" /\ ~CommittedNow)
       => UNCHANGED <<overview, siteAggregate, logs>>]_vars

\* A site load is in flight while the view still shows the data of an earlier
\* load.
C14_Witness ==
    /\ isSiteLoading
    /\ siteAggregate # NoData
    /\ logs = siteAggregate
    /\ \E i \in 1..Len(reqs) :
          /\ reqs[i].view = "site"
          /\ reqs[i].signal # "aborted"
          /\ reqs[i].seq > siteAggregate.seq

\* The step changed a parameter that only the site view uses.
SiteOnlyChange ==
    /\ timeRange' = timeRange
    /\ selectedSiteUrl' # selectedSiteUrl \/ limit' # limit

\* C15: the two views cancel independently: aborting one view's controller
\* leaves the requests of the other as they are, a change of the selected
\* site or of the limit leaves every overview request in flight untouched,
\* and an overview response whose signal is not aborted is committed.
C15_IndependentScopes ==
    /\ [](\A i \in 1..Len(reqs) :
            /\ reqs[i].view = "site" => Aborted(reqs, "overview")[i] = reqs[i]
            /\ reqs[i].view = "overview" => Aborted(reqs, "site")[i] = reqs[i])
    /\ [][SiteOnlyChange
          => \A i \in 1..Len(reqs) :
                reqs[i].view = "overview" => reqs'[i] = reqs[i]]_vars
    /\ [][(/\ Settled
           /\ lastDone'.req.view = "overview"
           /\ lastDone'.outcome = "ok"
           /\ lastDone'.req.signal # "aborted")
          => overview' = DataOf(lastDone'.req)]_vars

\* The overview request of the mount is still live after a change of the
\* limit has cancelled a site request.
C15_Witness ==
    /\ epoch["overview"] = 0
    /\ \E i, j \in 1..Len(reqs) :
          /\ reqs[i].view = "overview" /\ reqs[i].signal = "live"
          /\ reqs[j].view = "site" /\ reqs[j].signal = "aborted"

\* The requests the step has issued.
IssuedNow == {reqs'[i] : i \in {k \in 1..Len(reqs') : reqs'[k].seq > issued}}

\* C23: while auto-refresh is enabled and the page is mounted, an interval is
\* set whose period is the configured value, clamped to 1..60 seconds; the
\* interval callback runs exactly when that period has elapsed and calls both
\* fetches (overview, and site when a site is selected).  While auto-refresh
\* is disabled, and after the page is left, no interval is set and no step
\* issues a tick's request.
C23_AutoRefreshInterval ==
    /\ [](IF autoRefreshEnabled /\ mounted
          THEN /\ intervalTimer.period \in 1000..60000
               /\ autoRefreshInterval \in 10..600
                    => intervalTimer.period = autoRefreshInterval * 100
               /\ intervalTimer.elapsed <= intervalTimer.period
          ELSE intervalTimer = NoTimer)
    /\ [][LET ticks == {r \in IssuedNow : r.origin = "tick"}
          IN  ticks # {}
                => /\ autoRefreshEnabled /\ mounted
                   /\ intervalTimer.elapsed = intervalTimer.period
                   /\ intervalTimer'.elapsed = 0
                   /\ \E r \in ticks : r.view = "overview"
                   /\ selectedSiteUrl # "" => \E r \in ticks : r.view = "site"]_vars

\* "100" was typed into the interval field, a minute passed, and the interval
\* fired: a tick's requests for both views are out.
C23_Witness ==
    /\ intervalTimer.fired = 60000
    /\ \E i, j \in 1..Len(reqs) :
          /\ reqs[i].origin = "tick" /\ reqs[i].view = "overview"
          /\ reqs[j].origin = "tick" /\ reqs[j].view = "site"

(***************************************************************************)
(* Properties of the statistics                                             *)
(***************************************************************************)
Abs(a) == IF a < 0 THEN -a ELSE a

\* The record has a present, finite value of the field.
Present(log, field) == log[field].kind = "number"

\* The valid samples of the input for a field, in input order.
Valid(field) == SelectSeq(records, LAMBDA log : Present(log, field))

\* The sum, in thousandths, of the field over samples a..b of a sequence of
\* valid samples.
RECURSIVE SampleSum(_, _, _, _)
SampleSum(samples, field, a, b) ==
    IF a > b THEN 0
    ELSE samples[a][field].num + SampleSum(samples, field, a + 1, b)

\* The number x is the multiple of 1/scale nearest to sum / (1000 * n).
NearestTo(x, scale, sum, n) ==
    /\ x.kind = "number"
    /\ x.den = scale
    /\ 2 * Abs(x.num * 1000 * n - scale * sum) <= 1000 * n

\* Two numbers are the same number.
SameNumber(x, y) ==
    /\ x.kind = "number" /\ y.kind = "number"
    /\ x.num * y.den = y.num * x.den

\* C24: buildTimeseries never returns more points than maxPoints, for any
\* records, any field and any maxPoints.
C24_AtMostMaxPoints ==
    timeseries.called => Len(timeseries.points) <= timeseries.maxPoints

\* C25 (as stated): with maxPoints >= N, N the number of valid samples,
\* buildTimeseries returns N points, the k-th carrying the timestamp and the
\* value of the k-th valid sample.
C25_OnePointPerSample ==
    LET valid == Valid(timeseries.field)
    IN  timeseries.called /\ timeseries.maxPoints >= Len(valid)
            => /\ Len(timeseries.points) = Len(valid)
               /\ \A k \in 1..Len(valid) :
                     /\ timeseries.points[k].timestamp
                            = DateGetTime(valid[k].timestamp)
                     /\ SameNumber(timeseries.points[k].value,
                                   valid[k][timeseries.field])

\* C25 (amended): with maxPoints >= N, buildTimeseries returns N points, the
\* k-th carrying the timestamp of the k-th valid sample and its value rounded
\* to 2 decimals.
C25_OnePointPerSampleRounded ==
    LET valid == Valid(timeseries.field)
    IN  timeseries.called /\ timeseries.maxPoints >= Len(valid)
            => /\ Len(timeseries.points) = Len(valid)
               /\ \A k \in 1..Len(valid) :
                     /\ timeseries.points[k].timestamp
                            = DateGetTime(valid[k].timestamp)
                     /\ timeseries.points[k].meta = valid[k]
                     /\ NearestTo(timeseries.points[k].value, 100,
                                  valid[k][timeseries.field].num, 1)

\* Three records, the second without a latency, the third with 0.125, and
\* maxPoints 2: two points, the second with the value 0.13.
C25_Witness ==
    /\ timeseries.called
    /\ timeseries.field = "latency_ms"
    /\ timeseries.maxPoints = 2
    /\ Len(records) = 3
    /\ records[1].latency_ms = Milli(10000)
    /\ records[2].latency_ms = Null
    /\ records[3].latency_ms = Milli(125)
    /\ Len(timeseries.points) = 2
    /\ timeseries.points[2].value = [kind |-> "number", num |-> 13, den |-> 100]

\* C26: for a positive maxPoints, buildTimeseries cuts the valid samples, in
\* input order, into consecutive groups of b = max(1, ceil(N / maxPoints))
\* samples, the last one possibly shorter, every sample in exactly one
\* group; it returns ceil(N / b) points in group order, each with the mean of
\* its group rounded to 2 decimals and the timestamp of the group's last
\* record.
C26_ConsecutiveGroups ==
    timeseries.called /\ timeseries.maxPoints >= 1
        => LET valid == Valid(timeseries.field)
               N == Len(valid)
               M == timeseries.maxPoints
               b == Max(1, (N + M - 1) \div M)
               groups == (N + b - 1) \div b
               first(g) == (g - 1) * b + 1
               last(g) == Min(g * b, N)
           IN  /\ Len(timeseries.points) = groups
               /\ \A k \in 1..N :
                     Cardinality({g \in 1..groups : first(g) <= k /\ k <= last(g)}) = 1
               /\ \A g \in 1..groups :
                     /\ last(g) - first(g) + 1 \in 1..b
                     /\ g < groups => last(g) - first(g) + 1 = b
                     /\ timeseries.points[g].timestamp
                            = DateGetTime(valid[last(g)].timestamp)
                     /\ NearestTo(timeseries.points[g].value, 100,
                                  SampleSum(valid, timeseries.field, first(g), last(g)),
                                  last(g) - first(g) + 1)

\* Three valid samples and maxPoints 2: a group of two and a shorter last
\* group, so two points; the first has the mean 5.06 of 0.125 and 10.
C26_Witness ==
    /\ timeseries.called
    /\ timeseries.field = "latency_ms"
    /\ timeseries.maxPoints = 2
    /\ Len(Valid("latency_ms")) = 3
    /\ records[1].latency_ms = Milli(125)
    /\ records[2].latency_ms = Milli(10000)
    /\ Len(timeseries.points) = 2
    /\ timeseries.points[1].value = [kind |-> "number", num |-> 506, den |-> 100]
    /\ timeseries.points[1].timestamp = 2000
    /\ timeseries.points[2].timestamp = 3000

\* The weighted sum of a metric over the buckets, a null counting as 0, in
\* thousandths, and the total count.
RECURSIVE WeightedSum(_, _)
WeightedSum(metric, n) ==
    IF n = 0 THEN 0
    ELSE WeightedSum(metric, n - 1)
         + (IF buckets[n][metric].kind = "number"
            THEN buckets[n][metric].num * buckets[n].count ELSE 0)

RECURSIVE CountSum(_)
CountSum(n) == IF n = 0 THEN 0 ELSE CountSum(n - 1) + buckets[n].count

Metrics == {"latency_avg", "ping_avg", "ssl_days_left_avg", "dns_success_rate"}

\* C27: when the total count is positive, each metric of the summary is
\* sum(metric * count) / sum(count), rounded to 2 decimals, a null metric
\* counting as 0; {count 1, latency_avg 100} and {count 3, latency_avg 0}
\* give 25.
C27_CountWeighted ==
    summary.called /\ CountSum(Len(buckets)) > 0
        => /\ \A metric \in Metrics :
                NearestTo(summary.value[metric], 100,
                          WeightedSum(metric, Len(buckets)), CountSum(Len(buckets)))
           /\ (/\ Len(buckets) = 2
               /\ buckets[1].count = 1 /\ buckets[1].latency_avg = Milli(100000)
               /\ buckets[2].count = 3 /\ buckets[2].latency_avg = Milli(0))
                  => SameNumber(summary.value.latency_avg, Whole(25))

\* The two buckets of the example have been summarized, to 25.
C27_Witness ==
    /\ summary.called
    /\ Len(buckets) = 2
    /\ buckets[1].count = 1 /\ buckets[1].latency_avg = Milli(100000)
    /\ buckets[2].count = 3 /\ buckets[2].latency_avg = Milli(0)
    /\ summary.value.latency_avg = [kind |-> "number", num |-> 2500, den |-> 100]

\* C28: summarizing buckets whose total count is 0, the empty sequence
\* included, gives null for every metric and traffic-light counts of 0.
C28_EmptyTotalIsNull ==
    summary.called /\ CountSum(Len(buckets)) = 0
        => /\ \A metric \in Metrics : summary.value[metric] = Null
           /\ summary.value.traffic_light = [green |-> 0, orange |-> 0, red |-> 0]

\* Two buckets of count 0, one of them with averages, have been summarized.
C28_Witness ==
    /\ summary.called
    /\ Len(buckets) = 2
    /\ buckets[1].count = 0 /\ buckets[2].count = 0
    /\ buckets[1].latency_avg = Milli(100000)
    /\ summary.value.latency_avg = Null

\* C29: a metric that is null in every bucket is null in the summary, not 0,
\* also when the buckets have positive counts.
C29_NullStaysNull ==
    summary.called
        => \A metric \in Metrics :
              (\A n \in 1..Len(buckets) : buckets[n][metric] = Null)
                  => summary.value[metric] = Null

\* C30: calcAvgLatency and calcAvgPing return the mean, rounded to the
\* nearest integer, of the present finite values of their field, the other
\* records counting neither in the sum nor in the divisor, and null when no
\* record has a present value.
C30_AverageOfPresent ==
    average.called
        => LET valid == Valid(average.field)
           IN  IF Len(valid) = 0 THEN average.value = Null
               ELSE NearestTo(average.value, 1,
                              SampleSum(valid, average.field, 1, Len(valid)),
                              Len(valid))

\* The latencies 10, absent and 20 have been averaged to 15.
C30_Witness ==
    /\ average.called
    /\ average.field = "latency_ms"
    /\ Len(records) = 3
    /\ records[1].latency_ms = Milli(10000)
    /\ records[2].latency_ms = Null
    /\ records[3].latency_ms = Milli(20000)
    /\ average.value = Whole(15)

LoadingFlag(v) == IF v = "overview" THEN isOverviewLoading ELSE isSiteLoading

\* C36: a view's loading flag is true whenever a request of the view that was
\* not cancelled is in flight (so the completion of one request does not
\* clear it while another live request is in flight), and it is false once
\* every request of the view has completed.
C36_LoadingTracksRequests ==
    \A v \in Views :
        /\ (\E i \in 1..Len(reqs) : reqs[i].view = v /\ reqs[i].signal # "aborted")
               => LoadingFlag(v)
        /\ (\A i \in 1..Len(reqs) : reqs[i].view # v) => ~LoadingFlag(v)

\* (used by C37) a step that settles a load of the site view
SiteLoadSettled == Settled /\ lastDone'.req.view = "site"

\* C37 (as stated): the aggregate and the logs shown come from the same load,
\* and a site load in which either read fails commits neither result, leaves
\* both unchanged and sets the error.
C37_AtomicAndErrorAlways ==
    [][/\ siteAggregate' = logs'
       /\ (SiteLoadSettled /\ lastDone'.outcome = "fail")
             => /\ UNCHANGED <<siteAggregate, logs>>
                /\ error' # ""]_vars

\* C37 (amended): the aggregate and the logs shown come from the same load,
\* and a site load in which either read fails commits neither result and
\* leaves both unchanged; unless the load was cancelled it sets the error.
C37_AtomicSiteCommit ==
    [][/\ siteAggregate' = logs'
       /\ (SiteLoadSettled /\ lastDone'.outcome = "fail")
             => /\ UNCHANGED <<siteAggregate, logs>>
                /\ ~lastDone'.cancelled => error' # ""]_vars

\* After a committed site load, a later load of which only the logs read was
\* rejected has settled: the error is set and both results are those of the
\* earlier load.
C37_Witness ==
    /\ lastDone.req.view = "site"
    /\ lastDone.outcome = "fail"
    /\ lastDone.rejected = "logs"
    /\ ~lastDone.cancelled
    /\ error # ""
    /\ siteAggregate # NoData
    /\ siteAggregate = logs
    /\ siteAggregate.seq < lastDone.req.seq

\* C39: the traffic-light filter is never empty: from {green, orange, red},
\* after any sequence of toggles the set holds at least one value, and a
\* toggle of the only value of the set gives all three.
C39_TrafficFilterNeverEmpty ==
    /\ trafficFilter # {}
    /\ trafficFilter \subseteq TRAFFIC_OPTIONS
    /\ lastToggle.prev = {lastToggle.traffic} => trafficFilter = TRAFFIC_OPTIONS

\* The set held red only and red was toggled: the set holds all three.
C39_Witness ==
    /\ lastToggle.traffic = "red"
    /\ lastToggle.prev = {"red"}
    /\ trafficFilter = TRAFFIC_OPTIONS

=============================================================================
